---- MODULE Spec2Model ----
(***************************************************************************)
(* promptdock: prompt specifier parsing, frontmatter parsing and prompt    *)
(* resolution (list / edit / delete commands).                             *)
(*                                                                         *)
(* A JavaScript string is a sequence of one-character strings.  The value  *)
(* undefined is the one-element sequence Undefined, which no string of the *)
(* program equals.                                                         *)
(***************************************************************************)
EXTENDS Integers, Sequences, FiniteSets, TLC

VARIABLES
  pc,      \* position of the run
  raw,     \* promptArg, the specifier as typed
  path,    \* parsePromptSpec's local: the part before the version
  spec,    \* the parsed specifier
  fileRead, \* what readFileSync gave for the file being parsed
  meta,    \* parsePromptFile's local: the metadata object
  parsed,  \* what parsePromptFile returned for it
  fs,      \* the registry directory
  cmd,     \* the command that is running
  allVersions,     \* its --all-versions option
  allPrompts,      \* what findPrompts returned to it
  matchingPrompts, \* the records that passed the filter
  outcome, \* what the target selection came to
  versions,     \* version strings handed to the version functions
  result,       \* what the version function returned
  targetPrompt, \* edit: the record being edited
  bumpType,     \* edit: the answer to the version bump question
  newVersion,   \* edit: what bumpVersion returned
  content,      \* edit: finalContent, the text handed to validateHeader
  valid,        \* what validateHeader returned for it
  written,      \* edit: the new version file, once written
  relisted,     \* what parsePromptFile gives for the written file
  fetched, \* the GitHub Action: what fetchPrompt came to
  dryRun,       \* the --dry-run option of the running command
  reply,        \* the last answer given to a yes/no question
  original,     \* edit: fullContent, the text of the target file before the editor opens
  started,      \* the files of the registry when the running command started
  gitLog,       \* the git operations run so far, in order
  listed,       \* what a findPrompts of another process returned last
  repo,         \* sync: the local clone of the registry as git sees it
  project       \* pull: the project directory and the temporary clones in it

vars == <<pc, raw, path, spec, fileRead, meta, parsed, fs, cmd, allVersions, allPrompts,
          matchingPrompts, outcome, versions, result, targetPrompt, bumpType, newVersion,
          content, valid, written, relisted, fetched, dryRun, reply, original, started,
          gitLog, listed, repo, project>>
specVars == <<raw, path, spec>>
parserVars == <<fileRead, meta, parsed>>
registryVars == <<fs, cmd, allVersions, allPrompts, matchingPrompts, outcome>>
runVars == <<cmd, allVersions, allPrompts, matchingPrompts, outcome>>
versionVars == <<versions, result>>
editVars == <<targetPrompt, bumpType, newVersion, content, valid, written, relisted>>
sessionVars == <<dryRun, reply, original, started, gitLog, listed>>
syncVars == <<repo, project>>
commandVars == <<sessionVars, syncVars>>
otherVars == <<versionVars, editVars, fetched, commandVars>>

Undefined == <<"<undefined>">>

----------------------------------------------------------------------------
(* Bounds *)

MaxSpecLen == 4
MaxLines == 5
MaxFiles == 2
MaxVersions == 3
MaxOddFields == 2

----------------------------------------------------------------------------
(* String primitives of the JavaScript runtime *)

Range(s) == {s[i] : i \in 1..Len(s)}

\* s.includes(c)
Includes(s, c) == c \in Range(s)

\* s.lastIndexOf(c), 0-based, -1 when absent
LastIndexOf(s, c) ==
  IF Includes(s, c)
  THEN (CHOOSE i \in 1..Len(s) : s[i] = c /\ \A j \in (i+1)..Len(s) : s[j] # c) - 1
  ELSE -1

\* s.indexOf(c), 0-based, -1 when absent
IndexOf(s, c) ==
  IF Includes(s, c)
  THEN (CHOOSE i \in 1..Len(s) : s[i] = c /\ \A j \in 1..(i-1) : s[j] # c) - 1
  ELSE -1

\* s.substring(from, to), 0-based, to exclusive
Substring(s, from, to) == SubSeq(s, from + 1, to)

\* s.split(c): the segments of s between the occurrences of c
RECURSIVE Split(_, _)
Split(s, c) ==
  IF ~Includes(s, c) THEN <<s>>
  ELSE LET i == IndexOf(s, c)
       IN <<Substring(s, 0, i)>> \o Split(Substring(s, i + 1, Len(s)), c)

\* a[i] of a JavaScript array, 0-based: undefined past the end
At(a, i) == IF i + 1 \in 1..Len(a) THEN a[i + 1] ELSE Undefined

\* !x for a string-or-undefined value
Falsy(x) == x = Undefined \/ x = <<>>

----------------------------------------------------------------------------
(* parsePromptSpec *)

SpecPathFirstAt(promptArg) ==
  LET atIndex == IndexOf(promptArg, "@")
  IN IF atIndex # -1
     THEN [path |-> Substring(promptArg, 0, atIndex),
           version |-> Substring(promptArg, atIndex + 1, Len(promptArg))]
     ELSE [path |-> promptArg, version |-> Undefined]

\* lines 110-117: the path portion and the version
SpecPath(promptArg) ==
  LET atIndex == LastIndexOf(promptArg, "@")
  IN IF atIndex # -1
     THEN [path |-> Substring(promptArg, 0, atIndex),
           version |-> Substring(promptArg, atIndex + 1, Len(promptArg))]
     ELSE [path |-> promptArg, version |-> Undefined]

\* lines 119-124: namespace and name from the path portion
parsePromptSpec(promptArg) ==
  LET pv == SpecPath(promptArg)
  IN IF Includes(pv.path, "/")
     THEN LET parts == Split(pv.path, "/")
          IN [namespace |-> At(parts, 0), name |-> At(parts, 1), version |-> pv.version]
     ELSE [namespace |-> Undefined, name |-> pv.path, version |-> pv.version]

NoSpec == [namespace |-> Undefined, name |-> Undefined, version |-> Undefined]

----------------------------------------------------------------------------
(* String constants of the program *)

S_delim == <<"-", "-", "-">>
S_name == <<"n", "a", "m", "e">>
S_namespace == <<"n", "a", "m", "e", "s", "p", "a", "c", "e">>
S_version == <<"v", "e", "r", "s", "i", "o", "n">>
S_author == <<"a", "u", "t", "h", "o", "r">>
S_description == <<"d", "e", "s", "c", "r", "i", "p", "t", "i", "o", "n">>
S_created == <<"c", "r", "e", "a", "t", "e", "d">>
S_tags == <<"t", "a", "g", "s">>
S_Unknown == <<"U", "n", "k", "n", "o", "w", "n">>
S_NoDescription == <<"N", "o", " ", "d", "e", "s", "c", "r", "i", "p", "t", "i", "o", "n">>
S_latest == <<"l", "a", "t", "e", "s", "t">>
S_md == <<".", "m", "d">>

----------------------------------------------------------------------------
(* Character classes of the JavaScript runtime *)

Digits == <<"0", "1", "2", "3", "4", "5", "6", "7", "8", "9">>
DigitChars == Range(Digits)
DigitVal(c) == (CHOOSE i \in 1..10 : Digits[i] = c) - 1

LetterChars ==
  {"a", "b", "c", "d", "e", "f", "g", "h", "i", "j", "k", "l", "m",
   "n", "o", "p", "q", "r", "s", "t", "u", "v", "w", "x", "y", "z",
   "A", "B", "C", "D", "E", "F", "G", "H", "I", "J", "K", "L", "M",
   "N", "O", "P", "Q", "R", "S", "T", "U", "V", "W", "X", "Y", "Z"}

\* \w
WordChars == LetterChars \cup DigitChars \cup {"_"}
\* \s, and what String.prototype.trim strips
WhiteSpace == {" ", "\t", "\n", "\r"}
\* what . does not match
LineTerminators == {"\n", "\r"}

RECURSIVE TrimStart(_)
TrimStart(s) ==
  IF s # <<>> /\ Head(s) \in WhiteSpace THEN TrimStart(Tail(s)) ELSE s

RECURSIVE TrimEnd(_)
TrimEnd(s) ==
  IF s # <<>> /\ s[Len(s)] \in WhiteSpace THEN TrimEnd(SubSeq(s, 1, Len(s) - 1)) ELSE s

\* s.trim()
Trim(s) == TrimEnd(TrimStart(s))

\* lines.join(sep)
RECURSIVE Join(_, _)
Join(lines, sep) ==
  IF lines = <<>> THEN <<>>
  ELSE IF Len(lines) = 1 THEN lines[1]
  ELSE lines[1] \o <<sep>> \o Join(Tail(lines), sep)

\* s.endsWith(suffix)
EndsWith(s, suffix) ==
  /\ Len(s) >= Len(suffix)
  /\ SubSeq(s, Len(s) - Len(suffix) + 1, Len(s)) = suffix

----------------------------------------------------------------------------
(* JSON.parse on texts made of digits, double-quoted strings, the literals *)
(* true / false / null, arrays and white space.                            *)
(* A JSON value is [t, n, s, a]: t its type, n the number, s the string,   *)
(* a the array's elements.                                                 *)

JNum(n) == [t |-> "num", n |-> n, s |-> <<>>, a |-> <<>>]
JStr(s) == [t |-> "str", n |-> 0, s |-> s, a |-> <<>>]
JArr(a) == [t |-> "arr", n |-> 0, s |-> <<>>, a |-> a]
JLit(l) == [t |-> l, n |-> 0, s |-> <<>>, a |-> <<>>]
JFail == [ok |-> FALSE, v |-> JLit("null"), rest |-> <<>>]
JOk(v, rest) == [ok |-> TRUE, v |-> v, rest |-> rest]

JsonWhiteSpace == {" ", "\t", "\n", "\r"}

RECURSIVE JSkip(_)
JSkip(s) == IF s # <<>> /\ Head(s) \in JsonWhiteSpace THEN JSkip(Tail(s)) ELSE s

StartsWith(s, prefix) ==
  Len(s) >= Len(prefix) /\ SubSeq(s, 1, Len(prefix)) = prefix

RECURSIVE JDigits(_, _)
JDigits(s, acc) ==
  IF s # <<>> /\ Head(s) \in DigitChars
  THEN JDigits(Tail(s), acc * 10 + DigitVal(Head(s)))
  ELSE JOk(JNum(acc), s)

JNumber(s) ==
  IF Head(s) = "0"
  THEN IF Len(s) > 1 /\ s[2] \in DigitChars THEN JFail ELSE JOk(JNum(0), Tail(s))
  ELSE JDigits(s, 0)

\* the character an escape \c stands for (\b and \u do not occur in the
\* texts of this model)
JEscapes == [c \in {"\"", "\\", "/", "n", "r", "t", "f"} |->
               CASE c = "n" -> "\n" [] c = "r" -> "\r" [] c = "t" -> "\t" [] c = "f" -> "\f"
                 [] OTHER -> c]

RECURSIVE JString(_, _)
JString(s, acc) ==
  IF s = <<>> \/ Head(s) \in {"\n", "\r", "\t"} THEN JFail
  ELSE IF Head(s) = "\\"
  THEN (IF Len(s) >= 2 /\ s[2] \in DOMAIN JEscapes
        THEN JString(SubSeq(s, 3, Len(s)), Append(acc, JEscapes[s[2]])) ELSE JFail)
  ELSE IF Head(s) = "\"" THEN JOk(JStr(acc), Tail(s))
  ELSE JString(Tail(s), Append(acc, Head(s)))

RECURSIVE JValue(_)
RECURSIVE JElements(_, _)

JValue(s0) ==
  LET s == JSkip(s0)
  IN IF s = <<>> THEN JFail
     ELSE IF Head(s) \in DigitChars THEN JNumber(s)
     ELSE IF Head(s) = "\"" THEN JString(Tail(s), <<>>)
     ELSE IF StartsWith(s, <<"t", "r", "u", "e">>) THEN JOk(JLit("true"), SubSeq(s, 5, Len(s)))
     ELSE IF StartsWith(s, <<"f", "a", "l", "s", "e">>) THEN JOk(JLit("false"), SubSeq(s, 6, Len(s)))
     ELSE IF StartsWith(s, <<"n", "u", "l", "l">>) THEN JOk(JLit("null"), SubSeq(s, 5, Len(s)))
     ELSE IF Head(s) = "["
     THEN LET r == JSkip(Tail(s))
          IN IF r # <<>> /\ Head(r) = "]" THEN JOk(JArr(<<>>), Tail(r))
             ELSE JElements(r, <<>>)
     ELSE JFail

\* the elements of an array after '[' or ',', up to and including ']'
JElements(s, acc) ==
  LET e == JValue(s)
  IN IF ~e.ok THEN JFail
     ELSE LET r == JSkip(e.rest)
          IN IF r = <<>> THEN JFail
             ELSE IF Head(r) = "]" THEN JOk(JArr(Append(acc, e.v)), Tail(r))
             ELSE IF Head(r) = "," THEN JElements(Tail(r), Append(acc, e.v))
             ELSE JFail

\* JSON.parse(text): ok = FALSE when it throws SyntaxError
JSONParse(text) ==
  LET r == JValue(text)
  IN IF r.ok /\ JSkip(r.rest) = <<>> THEN [ok |-> TRUE, v |-> r.v] ELSE [ok |-> FALSE, v |-> r.v]

\* !v for a JSON value
JFalsy(v) ==
  \/ v.t = "num" /\ v.n = 0
  \/ v.t = "str" /\ v.s = <<>>
  \/ v.t \in {"false", "null"}

----------------------------------------------------------------------------
(* parsePromptFile (list.ts; edit and delete carry the same code)          *)
(*                                                                         *)
(* read is what readFileSync(filePath, 'utf-8') does: [ok |-> TRUE, text]  *)
(* or, when it throws, [ok |-> FALSE].                                     *)

ReadOk(text) == [ok |-> TRUE, text |-> text]
ReadThrows == [ok |-> FALSE, text |-> <<>>]

Null == [kind |-> "null"]
Thrown == [kind |-> "throw"]

\* lines 25-37: 0-based index of the first line whose trim is '---', or -1
StartIndex(lines) ==
  LET hits == {i \in 1..Len(lines) : Trim(lines[i]) = S_delim}
  IN IF hits = {} THEN -1
     ELSE (CHOOSE i \in hits : \A j \in hits : i <= j) - 1

\* lines 25-37: 0-based index of the second such line, or -1
EndIndex(lines) ==
  LET start == StartIndex(lines)
      hits == {i \in 1..Len(lines) : Trim(lines[i]) = S_delim /\ i - 1 > start}
  IN IF start = -1 \/ hits = {} THEN -1
     ELSE (CHOOSE i \in hits : \A j \in hits : i <= j) - 1

\* the length of the longest prefix of s made of characters of class
RECURSIVE PrefixLen(_, _)
PrefixLen(s, class) ==
  IF s # <<>> /\ Head(s) \in class THEN 1 + PrefixLen(Tail(s), class) ELSE 0

\* line.match(/^(\w+):\s*(.+)$/): [ok, key, value]
NoMatch == [ok |-> FALSE, key |-> <<>>, value |-> <<>>]

LineMatch(line) ==
  LET k == PrefixLen(line, WordChars)
  IN IF k = 0 \/ k >= Len(line) \/ line[k + 1] # ":" THEN NoMatch
     ELSE LET rest == SubSeq(line, k + 2, Len(line))
              w == PrefixLen(rest, WhiteSpace)
              \* how much white space \s* may take so that .+ still matches
              takes == {j \in 0..w : /\ j < Len(rest)
                                     /\ \A i \in (j + 1)..Len(rest) : rest[i] \notin LineTerminators}
          IN IF takes = {} THEN NoMatch
             ELSE LET j == CHOOSE x \in takes : \A y \in takes : y <= x
                  IN [ok |-> TRUE, key |-> SubSeq(line, 1, k),
                      value |-> SubSeq(rest, j + 1, Len(rest))]

PutKeepFirst(metadata, key, value) ==
  [k \in DOMAIN metadata \cup {key} |-> IF k \in DOMAIN metadata THEN metadata[k] ELSE value]

\* metadata[key] = value
Put(metadata, key, value) ==
  [k \in DOMAIN metadata \cup {key} |-> IF k = key THEN value ELSE metadata[k]]

\* lines 50-55: the value stored for a tags line
TagsValue(text) ==
  LET r == JSONParse(text)
  IN IF r.ok THEN r.v ELSE JArr(<<>>)

\* lines 47-61: the loop over the frontmatter lines
RECURSIVE ParseFrontmatter(_, _)
ParseFrontmatter(frontmatter, metadata) ==
  IF frontmatter = <<>> THEN metadata
  ELSE LET match == LineMatch(Head(frontmatter))
       IN ParseFrontmatter(Tail(frontmatter),
            IF ~match.ok THEN metadata
            ELSE IF match.key = S_tags THEN Put(metadata, match.key, TagsValue(match.value))
            ELSE Put(metadata, match.key, match.value))

\* lines 44-61: the metadata object of a text with both delimiters
Metadata(lines) ==
  ParseFrontmatter(SubSeq(lines, StartIndex(lines) + 2, EndIndex(lines)), <<>>)

FieldNoDefault(metadata, key, dflt) ==
  IF key \in DOMAIN metadata THEN metadata[key] ELSE Undefined

\* metadata.key || dflt, for the string fields
Field(metadata, key, dflt) ==
  IF key \in DOMAIN metadata /\ ~Falsy(metadata[key]) THEN metadata[key] ELSE dflt

\* metadata.tags || []
TagsField(metadata) ==
  IF S_tags \in DOMAIN metadata /\ ~JFalsy(metadata[S_tags]) THEN metadata[S_tags] ELSE JArr(<<>>)

\* lines 63-72: the returned record
PromptInfo(metadata, filePath) ==
  [kind |-> "record",
   name |-> Field(metadata, S_name, S_Unknown),
   namespace |-> Field(metadata, S_namespace, S_Unknown),
   version |-> Field(metadata, S_version, S_Unknown),
   author |-> Field(metadata, S_author, S_Unknown),
   description |-> Field(metadata, S_description, S_NoDescription),
   created |-> Field(metadata, S_created, S_Unknown),
   tags |-> TagsField(metadata),
   file |-> filePath]

\* lines 21-72: the body of the try block
ParseBody(filePath, read) ==
  IF ~read.ok THEN Thrown
  ELSE LET lines == Split(read.text, "\n")
       IN IF StartIndex(lines) = -1 \/ EndIndex(lines) = -1 THEN Null
          ELSE PromptInfo(Metadata(lines), filePath)

parsePromptFileNoCatch(filePath, read) == ParseBody(filePath, read)

\* lines 19-76: try { ... } catch (error) { return null; }
parsePromptFile(filePath, read) ==
  LET r == ParseBody(filePath, read)
  IN IF r.kind = "throw" THEN Null ELSE r

----------------------------------------------------------------------------
(* The registry directory (config.local) as the commands see it.           *)
(*   root    the directory exists                                            *)
(*   denied  the namespace directories that readdirSync cannot read          *)
(*   extra   the plain files lying directly in the root                      *)
(*   files   <<namespace directory, file name>> -> text, the files there     *)

DirNames == {<<"w", "e", "b">>, <<"a", "p", "i">>}
RootFileNames == {<<"R", ".", "m", "d">>}

\* join(dir, file)
PathJoin(dir, file) == dir \o <<"/">> \o file

FilesIn(f, dir) == {slot[2] : slot \in {x \in DOMAIN f.files : x[1] = dir}}

\* readFileSync(join(dir, file), 'utf-8')
ReadFile(f, dir, file) ==
  IF <<dir, file>> \in DOMAIN f.files THEN ReadOk(f.files[<<dir, file>>]) ELSE ReadThrows

\* the orders in which readdirSync may list the members of S
Orders(S) ==
  {o \in [1..Cardinality(S) -> S] : \A i, j \in 1..Cardinality(S) : i # j => o[i] # o[j]}

\* a.filter(keep) for a predicate given as the set of kept elements
RECURSIVE Filter(_, _)
Filter(a, kept) ==
  IF a = <<>> THEN <<>>
  ELSE IF Head(a) \in kept THEN <<Head(a)>> \o Filter(Tail(a), kept)
  ELSE Filter(Tail(a), kept)

\* list.ts line 89: readdirSync(namespaceDir).filter(file => file.endsWith('.md'))
MdFiles(files) == Filter(files, {x \in Range(files) : EndsWith(x, S_md)})

\* list.ts lines 91-97: the loop over the files of one namespace directory
RECURSIVE ScanFiles(_, _, _)
ScanFiles(f, dir, files) ==
  IF files = <<>> THEN <<>>
  ELSE LET promptInfo == parsePromptFile(PathJoin(dir, Head(files)), ReadFile(f, dir, Head(files)))
       IN (IF promptInfo.kind = "record" THEN <<promptInfo>> ELSE <<>>)
          \o ScanFiles(f, dir, Tail(files))

\* list.ts lines 87-101: the loop over the namespaces; readdirSync of a
\* directory that cannot be read throws, and the catch keeps what was pushed
RECURSIVE ScanNamespaces(_, _, _, _)
ScanNamespaces(f, namespaces, fileOrder, prompts) ==
  IF namespaces = <<>> THEN prompts
  ELSE LET namespace == Head(namespaces)
       IN IF namespace \in f.denied THEN prompts
          ELSE ScanNamespaces(f, Tail(namespaces), fileOrder,
                              prompts \o ScanFiles(f, namespace, MdFiles(fileOrder[namespace])))

\* list.ts lines 78-104 (edit.ts 80-106, delete 79-105): rootOrder and
\* fileOrder are the orders in which readdirSync lists the directories
findPrompts(f, rootOrder, fileOrder) ==
  IF ~f.root THEN <<>>
  ELSE ScanNamespaces(f, Filter(rootOrder, DirNames), fileOrder, <<>>)

\* the namespace directories of the root: a readable directory without a
\* file gives findPrompts what no directory gives it, so a directory is there
\* when it holds a file or cannot be read
DirsOf(f) == {d \in DirNames : FilesIn(f, d) # {} \/ d \in f.denied}

RootOrders(f) == Orders(DirsOf(f) \cup f.extra)
FileOrders(f) ==
  {o \in [DirNames -> UNION {Orders(FilesIn(f, d)) : d \in DirNames}] :
     \A d \in DirNames : o[d] \in Orders(FilesIn(f, d))}

----------------------------------------------------------------------------
(* parseVersion and getLatestVersion (edit.ts) *)

HexDigits == <<"0", "1", "2", "3", "4", "5", "6", "7", "8", "9", "a", "b", "c", "d", "e", "f">>

RECURSIVE DigitsValue(_, _, _, _)
DigitsValue(s, digits, radix, acc) ==
  IF s # <<>> /\ Head(s) \in Range(digits)
  THEN DigitsValue(Tail(s), digits, radix,
                   acc * radix + (CHOOSE i \in 1..Len(digits) : digits[i] = Head(s)) - 1)
  ELSE acc

\* parseInt(s): white space, a sign, then the decimal digits (the hex digits
\* after 0x) the string starts with; NaN when there are none
ParseInt(s0) ==
  LET s == TrimStart(s0)
      neg == s # <<>> /\ Head(s) = "-"
      t == IF s # <<>> /\ Head(s) \in {"-", "+"} THEN Tail(s) ELSE s
      hex == Len(t) >= 2 /\ t[1] = "0" /\ t[2] \in {"x", "X"}
      u == IF hex THEN SubSeq(t, 3, Len(t)) ELSE t
      digits == IF hex THEN HexDigits ELSE Digits
      n == DigitsValue(u, digits, IF hex THEN 16 ELSE 10, 0)
  IN IF u = <<>> \/ Head(u) \notin Range(digits) THEN [nan |-> TRUE, n |-> 0]
     ELSE [nan |-> FALSE, n |-> IF neg THEN 0 - n ELSE n]

\* parseInt(s) || 0
ParseIntOr0(s) == ParseInt(s).n

\* edit.ts lines 138-145
parseVersion(version) ==
  LET parts == Split(version, ".")
      part(i) == IF i <= Len(parts) THEN ParseIntOr0(parts[i]) ELSE 0
  IN [major |-> part(1), minor |-> part(2), patch |-> part(3)]

CompareDescNoMinor(a, b) ==
  LET aVersion == parseVersion(a.version)
      bVersion == parseVersion(b.version)
  IN IF aVersion.major # bVersion.major THEN bVersion.major - aVersion.major
     ELSE bVersion.patch - aVersion.patch

\* edit.ts lines 129-134: the comparator handed to sort
CompareDesc(a, b) ==
  LET aVersion == parseVersion(a.version)
      bVersion == parseVersion(b.version)
  IN IF aVersion.major # bVersion.major THEN bVersion.major - aVersion.major
     ELSE IF aVersion.minor # bVersion.minor THEN bVersion.minor - aVersion.minor
     ELSE bVersion.patch - aVersion.patch

\* Array.prototype.sort with that comparator: a stable sort
RECURSIVE InsertSorted(_, _)
InsertSorted(sorted, x) ==
  IF sorted = <<>> THEN <<x>>
  ELSE IF CompareDesc(Head(sorted), x) <= 0 THEN <<Head(sorted)>> \o InsertSorted(Tail(sorted), x)
  ELSE <<x>> \o sorted

RECURSIVE SortDesc(_)
SortDesc(a) ==
  IF a = <<>> THEN <<>> ELSE InsertSorted(SortDesc(SubSeq(a, 1, Len(a) - 1)), a[Len(a)])

\* edit.ts lines 127-136
getLatestVersion(prompts) == SortDesc(prompts)[1]

----------------------------------------------------------------------------
(* bumpVersion (edit.ts) *)

\* a JavaScript number: an integer or NaN
Num(n) == [nan |-> FALSE, n |-> n]
NaN == [nan |-> TRUE, n |-> 0]

\* Number(s) for a string without '.', 'e' or 'E' and shorter than 'Infinity'
\* (the segments of the version strings of this model): white space is
\* trimmed, the empty string is 0, a signed run of decimal digits or an
\* unsigned 0x run of hex digits is its value, anything else is NaN
Number(s0) ==
  LET s == Trim(s0)
      signed == s # <<>> /\ Head(s) \in {"-", "+"}
      t == IF signed THEN Tail(s) ELSE s
      hex == Len(s) > 2 /\ s[1] = "0" /\ s[2] \in {"x", "X"}
      h == SubSeq(s, 3, Len(s))
  IN IF s = <<>> THEN Num(0)
     ELSE IF hex
     THEN (IF \A i \in 1..Len(h) : h[i] \in Range(HexDigits)
           THEN Num(DigitsValue(h, HexDigits, 16, 0)) ELSE NaN)
     ELSE IF t # <<>> /\ \A i \in 1..Len(t) : t[i] \in DigitChars
     THEN Num(IF Head(s) = "-" THEN 0 - DigitsValue(t, Digits, 10, 0)
              ELSE DigitsValue(t, Digits, 10, 0))
     ELSE NaN

\* the decimal digits of a natural number
RECURSIVE NatToString(_)
NatToString(n) ==
  IF n < 10 THEN <<Digits[n + 1]>> ELSE NatToString(n \div 10) \o <<Digits[(n % 10) + 1]>>

\* `${x}` for a number x
NumToString(x) ==
  IF x.nan THEN <<"N", "a", "N">>
  ELSE IF x.n < 0 THEN <<"-">> \o NatToString(0 - x.n)
  ELSE NatToString(x.n)

\* x + 1
Plus1(x) == IF x.nan THEN NaN ELSE Num(x.n + 1)

S_major == <<"m", "a", "j", "o", "r">>
S_minor == <<"m", "i", "n", "o", "r">>
S_patch == <<"p", "a", "t", "c", "h">>
S_1_0_0 == <<"1", ".", "0", ".", "0">>

\* currentVersion.split('.').map(Number)
RECURSIVE MapNumber(_)
MapNumber(parts) ==
  IF parts = <<>> THEN <<>> ELSE <<Number(Head(parts))>> \o MapNumber(Tail(parts))

bumpVersionKeepPatch(currentVersion, type) ==
  LET parts == MapNumber(Split(currentVersion, "."))
  IN IF Len(parts) # 3 THEN S_1_0_0
     ELSE IF type = S_major THEN NumToString(Plus1(parts[1])) \o <<".", "0", ".", "0">>
     ELSE IF type = S_minor
     THEN NumToString(parts[1]) \o <<".">> \o NumToString(Plus1(parts[2]))
          \o <<".">> \o NumToString(parts[3])
     ELSE IF type = S_patch
     THEN NumToString(parts[1]) \o <<".">> \o NumToString(parts[2])
          \o <<".">> \o NumToString(Plus1(parts[3]))
     ELSE currentVersion

\* edit.ts lines 147-165
bumpVersion(currentVersion, type) ==
  LET parts == MapNumber(Split(currentVersion, "."))
  IN IF Len(parts) # 3 THEN S_1_0_0
     ELSE IF type = S_major THEN NumToString(Plus1(parts[1])) \o <<".", "0", ".", "0">>
     ELSE IF type = S_minor
     THEN NumToString(parts[1]) \o <<".">> \o NumToString(Plus1(parts[2])) \o <<".", "0">>
     ELSE IF type = S_patch
     THEN NumToString(parts[1]) \o <<".">> \o NumToString(parts[2])
          \o <<".">> \o NumToString(Plus1(parts[3]))
     ELSE currentVersion

----------------------------------------------------------------------------
(* validateHeader and the edit command after the target selection (edit.ts) *)

UpperCase ==
  <<"A", "B", "C", "D", "E", "F", "G", "H", "I", "J", "K", "L", "M",
    "N", "O", "P", "Q", "R", "S", "T", "U", "V", "W", "X", "Y", "Z">>
LowerCase ==
  <<"a", "b", "c", "d", "e", "f", "g", "h", "i", "j", "k", "l", "m",
    "n", "o", "p", "q", "r", "s", "t", "u", "v", "w", "x", "y", "z">>

\* s.toLowerCase()
ToLowerCase(s) ==
  [i \in 1..Len(s) |->
     IF s[i] \in Range(UpperCase)
     THEN LowerCase[CHOOSE k \in 1..26 : UpperCase[k] = s[i]] ELSE s[i]]

BumpTypes == {S_major, S_minor, S_patch}

ValidBumpTypeAny(answer) == TRUE

\* edit.ts lines 320, 323: ['major', 'minor', 'patch'].includes(bumpType.toLowerCase())
ValidBumpType(answer) == ToLowerCase(answer) \in BumpTypes

RequiredFields == <<S_name, S_namespace, S_version, S_author, S_description, S_created>>

\* edit.ts lines 194-200: the index of the closing '---', 0-based, -1 when absent
RECURSIVE HeaderEnd(_, _)
HeaderEnd(lines, i) ==
  IF i >= Len(lines) THEN -1
  ELSE IF lines[i + 1] = S_delim THEN i
  ELSE HeaderEnd(lines, i + 1)

\* edit.ts lines 190-215
validateHeader(fullContent) ==
  LET lines == Split(fullContent, "\n")
      endIndex == HeaderEnd(lines, 1)
      headerLines == SubSeq(lines, 2, endIndex)
  IN IF lines[1] # S_delim THEN FALSE
     ELSE IF endIndex = -1 THEN FALSE
     ELSE \A f \in 1..Len(RequiredFields) :
            \E k \in 1..Len(headerLines) : StartsWith(headerLines[k], RequiredFields[f] \o <<":">>)

\* parts.join(sep)
RECURSIVE JoinWith(_, _)
JoinWith(parts, sep) ==
  IF parts = <<>> THEN <<>>
  ELSE IF Len(parts) = 1 THEN parts[1]
  ELSE parts[1] \o sep \o JoinWith(Tail(parts), sep)

\* `${tag}` for an element of tags
RECURSIVE TagToString(_)
TagToString(v) ==
  IF v.t = "str" THEN v.s
  ELSE IF v.t = "num" THEN NatToString(v.n)
  ELSE IF v.t = "arr" THEN JoinWith([i \in 1..Len(v.a) |-> TagToString(v.a[i])], <<",">>)
  ELSE IF v.t = "true" THEN <<"t", "r", "u", "e">>
  ELSE IF v.t = "false" THEN <<"f", "a", "l", "s", "e">>
  ELSE <<>>

\* edit.ts line 336: targetPrompt.tags.map(tag => `"${tag}"`).join(', ')
QuotedTags(tags) ==
  JoinWith([i \in 1..Len(tags.a) |-> <<"\"">> \o TagToString(tags.a[i]) \o <<"\"">>], <<",", " ">>)

\* edit.ts line 336: tagsStr; tags.length is the length of an array or of a
\* string and undefined for a number or a boolean, and a string has no map
TagsStr(tags) ==
  IF tags.t = "arr" /\ Len(tags.a) > 0
  THEN [threw |-> FALSE, text |-> <<"\n", "t", "a", "g", "s", ":", " ", "[">> \o QuotedTags(tags) \o <<"]">>]
  ELSE [threw |-> tags.t = "str", text |-> <<>>]

\* edit.ts lines 337-346: newHeader
NewHeader(target, version, tagsStr) ==
  Join(<<S_delim,
         S_name \o <<":", " ">> \o target.name,
         S_namespace \o <<":", " ">> \o target.namespace,
         S_version \o <<":", " ">> \o version,
         S_author \o <<":", " ">> \o target.author,
         S_description \o <<":", " ">> \o target.description,
         S_created \o <<":", " ">> \o target.created \o tagsStr,
         S_delim,
         <<>>,
         <<>> >>, "\n")

\* dirname(file)
Dirname(file) ==
  IF Includes(file, "/") THEN SubSeq(file, 1, LastIndexOf(file, "/")) ELSE <<".">>

\* edit.ts lines 331-333: newFilePath
NewFilePath(target, version) ==
  PathJoin(Dirname(target.file), target.name \o <<"-">> \o version \o S_md)

NoFile == [path |-> <<>>, text |-> <<>>]

----------------------------------------------------------------------------
(* The GitHub Action: PromptFetcher (test-script.sh).  The repository is   *)
(* read through getContent: a directory gives its entries, a file its      *)
(* text, a path that does not exist throws.                                *)

NullValue == <<"<null>">>
S_unknown == <<"u", "n", "k", "n", "o", "w", "n">>

Failed(message) == [kind |-> "error", message |-> message]

\* lines 180-196: parsePromptSpec of the fetcher; it throws without an '@'
fetcherParsePromptSpec(promptSpec) ==
  LET atIndex == LastIndexOf(promptSpec, "@")
      promptPath == Substring(promptSpec, 0, atIndex)
      version == Substring(promptSpec, atIndex + 1, Len(promptSpec))
      parts == Split(promptPath, "/")
  IN IF atIndex = -1 THEN [threw |-> TRUE, namespace |-> NullValue, name |-> <<>>,
                           version |-> <<>>]
     ELSE IF Includes(promptPath, "/")
     THEN [threw |-> FALSE, namespace |-> At(parts, 0), name |-> At(parts, 1),
           version |-> version]
     ELSE [threw |-> FALSE, namespace |-> NullValue, name |-> promptPath, version |-> version]

\* lines 352-360: the record returned for the parsed frontmatter
PromptMetadata(metadata) ==
  [kind |-> "record",
   name |-> Field(metadata, S_name, S_unknown),
   namespace |-> Field(metadata, S_namespace, S_unknown),
   version |-> Field(metadata, S_version, S_1_0_0),
   author |-> Field(metadata, S_author, S_unknown),
   description |-> Field(metadata, S_description, <<>>),
   tags |-> TagsField(metadata),
   created |-> Field(metadata, S_created, <<>>)]

\* lines 314-360: parsePromptMetadata
parsePromptMetadata(fullContent) ==
  LET lines == Split(fullContent, "\n")
      endIndex == HeaderEnd(lines, 1)
  IN IF lines[1] # S_delim THEN Null
     ELSE IF endIndex = -1 THEN Null
     ELSE PromptMetadata(ParseFrontmatter(SubSeq(lines, 2, endIndex), <<>>))

\* fileName.replace('.md', ''): the first '.md' is taken out
RemoveFirstMd(fileName) ==
  LET hits == {i \in 1..Len(fileName) : StartsWith(SubSeq(fileName, i, Len(fileName)), S_md)}
      first == CHOOSE i \in hits : \A j \in hits : i <= j
  IN IF hits = {} THEN fileName
     ELSE SubSeq(fileName, 1, first - 1) \o SubSeq(fileName, first + Len(S_md), Len(fileName))

\* one or more decimal digits
IsDigits(s) == s # <<>> /\ \A i \in 1..Len(s) : s[i] \in DigitChars

\* lines 286-290: fileName matches ^expectedName-\d+\.\d+\.\d+$
isVersionedFileName(fileName, expectedName) ==
  LET prefix == expectedName \o <<"-">>
      numbers == Split(SubSeq(fileName, Len(prefix) + 1, Len(fileName)), ".")
  IN /\ StartsWith(fileName, prefix)
     /\ Len(numbers) = 3
     /\ \A i \in 1..3 : IsDigits(numbers[i])

\* lines 271-277: a parsed file is kept when its name field is the name
KeepPrompt(prompt, name) ==
  IF prompt.kind = "record" /\ prompt.name = name THEN <<prompt>> ELSE <<>>

\* lines 266-280: the loop over the entries of one namespace directory
RECURSIVE SearchFiles(_, _, _, _)
SearchFiles(f, namespace, name, files) ==
  IF files = <<>> THEN <<>>
  ELSE (IF EndsWith(Head(files), S_md) /\ isVersionedFileName(RemoveFirstMd(Head(files)), name)
        THEN KeepPrompt(parsePromptMetadata(f.files[<<namespace, Head(files)>>]), name)
        ELSE <<>>)
       \o SearchFiles(f, namespace, name, Tail(files))

\* lines 258-284: searchNamespaceForPrompts; a namespace that is not there
\* makes getContent throw, which the catch swallows
searchNamespaceForPrompts(f, namespace, name, fileOrder) ==
  IF namespace \in DirsOf(f) THEN SearchFiles(f, namespace, name, fileOrder[namespace])
  ELSE <<>>

RECURSIVE SearchNamespaces(_, _, _, _)
SearchNamespaces(f, namespaces, name, fileOrder) ==
  IF namespaces = <<>> THEN <<>>
  ELSE searchNamespaceForPrompts(f, Head(namespaces), name, fileOrder)
       \o SearchNamespaces(f, Tail(namespaces), name, fileOrder)

\* lines 228-256: findMatchingPrompts
findMatchingPrompts(f, namespace, name, rootOrder, fileOrder) ==
  IF namespace # NullValue /\ ~Falsy(namespace)
  THEN searchNamespaceForPrompts(f, namespace, name, fileOrder)
  ELSE SearchNamespaces(f, Filter(rootOrder, DirNames), name, fileOrder)

\* lines 392-405: the text after the frontmatter, trimmed
PromptContent(fullContent) ==
  LET lines == Split(fullContent, "\n")
      endIndex == HeaderEnd(lines, 1)
      contentStart == IF lines[1] = S_delim /\ endIndex # -1 THEN endIndex + 1 ELSE 0
  IN Trim(Join(SubSeq(lines, contentStart + 1, Len(lines)), "\n"))

\* lines 398-427: the checks on the parsed file and the returned prompt
PromptInfoOf(metadata, fullContent, file, version) ==
  IF metadata.kind # "record" THEN Failed("Invalid prompt format")
  ELSE IF metadata.version # version THEN Failed("Version mismatch")
  ELSE [kind |-> "prompt", metadata |-> metadata, content |-> PromptContent(fullContent),
        file |-> PathJoin(file[1], file[2])]

\* lines 362-427: fetchPromptContent: the versioned file name first, the
\* legacy file name when that path gives nothing
fetchPromptContent(f, namespace, name, version) ==
  LET versionedFile == <<namespace, name \o <<"-">> \o version \o S_md>>
      legacyFile == <<namespace, name \o S_md>>
      file == IF versionedFile \in DOMAIN f.files THEN versionedFile ELSE legacyFile
  IN IF file \notin DOMAIN f.files THEN Failed("Prompt not found")
     ELSE PromptInfoOf(parsePromptMetadata(f.files[file]), f.files[file], file, version)

\* fetchPromptContent(p.namespace, p.name, p.version) of a found prompt
ContentOf(f, p) == fetchPromptContent(f, p.namespace, p.name, p.version)

\* lines 201-208: the latest of the matching prompts
LatestOf(f, matching) ==
  IF Len(matching) = 0 THEN Failed("No prompt found")
  ELSE ContentOf(f, getLatestVersion(matching))

\* lines 198-209: fetchLatestPrompt
fetchLatestPrompt(f, namespace, name, rootOrder, fileOrder) ==
  LatestOf(f, findMatchingPrompts(f, namespace, name, rootOrder, fileOrder))

\* lines 217-225: the first matching prompt of the version
ExactMatchOf(f, matching, version) ==
  LET hits == {i \in 1..Len(matching) : matching[i].version = version}
  IN IF hits = {} THEN Failed("No prompt found")
     ELSE ContentOf(f, matching[CHOOSE i \in hits : \A j \in hits : i <= j])

\* lines 211-226: fetchSpecificVersion
fetchSpecificVersion(f, namespace, name, version, rootOrder, fileOrder) ==
  IF namespace # NullValue /\ ~Falsy(namespace)
  THEN fetchPromptContent(f, namespace, name, version)
  ELSE ExactMatchOf(f, findMatchingPrompts(f, NullValue, name, rootOrder, fileOrder), version)

\* lines 170-178: fetchPrompt
fetchPrompt(f, promptSpec, rootOrder, fileOrder) ==
  LET sp == fetcherParsePromptSpec(promptSpec)
  IN IF sp.threw THEN Failed("Invalid prompt format. Use: name@version")
     ELSE IF sp.version = S_latest
     THEN fetchLatestPrompt(f, sp.namespace, sp.name, rootOrder, fileOrder)
     ELSE fetchSpecificVersion(f, sp.namespace, sp.name, sp.version, rootOrder, fileOrder)

----------------------------------------------------------------------------
(* Target selection of the edit and delete commands *)

MatchesAnyNamespace(p, sp) ==
  p.name = sp.name /\ (Falsy(sp.version) \/ p.version = sp.version)

\* edit.ts lines 232-237: the filter predicate
Matches(p, sp) ==
  LET nameMatch == p.name = sp.name
      namespaceMatch == Falsy(sp.namespace) \/ p.namespace = sp.namespace
      versionMatch == Falsy(sp.version) \/ p.version = sp.version
  IN nameMatch /\ namespaceMatch /\ versionMatch

\* allPrompts.filter(...)
RECURSIVE MatchingPrompts(_, _)
MatchingPrompts(all, sp) ==
  IF all = <<>> THEN <<>>
  ELSE (IF Matches(Head(all), sp) THEN <<Head(all)>> ELSE <<>>)
       \o MatchingPrompts(Tail(all), sp)

Outcome(kind, records) == [kind |-> kind, records |-> records]
NoOutcome == Outcome("none", <<>>)

EditTargetEmptyAsError(matching, sp) ==
  IF Len(matching) = 1 THEN Outcome("Unique", <<matching[1]>>)
  ELSE IF Len(matching) > 1 /\ sp.version = S_latest
  THEN Outcome("Unique", <<getLatestVersion(matching)>>)
  ELSE IF Len(matching) > 1 /\ Falsy(sp.version) THEN Outcome("Ambiguous", matching)
  ELSE Outcome("MultipleMatches", <<>>)

\* edit.ts lines 239-278, up to the question put to the user
EditTarget(matching, sp) ==
  IF Len(matching) = 0 THEN Outcome("NotFound", <<>>)
  ELSE IF Len(matching) = 1 THEN Outcome("Unique", <<matching[1]>>)
  ELSE IF sp.version = S_latest THEN Outcome("Unique", <<getLatestVersion(matching)>>)
  ELSE IF Falsy(sp.version) THEN Outcome("Ambiguous", matching)
  ELSE Outcome("MultipleMatches", <<>>)

\* delete lines 169-218, up to the question put to the user
DeleteTarget(matching, sp, all) ==
  IF Len(matching) = 0 THEN Outcome("NotFound", <<>>)
  ELSE IF all THEN Outcome("AllVersions", matching)
  ELSE IF Len(matching) = 1 THEN Outcome("Unique", <<matching[1]>>)
  ELSE IF sp.version = S_latest THEN Outcome("Unique", <<getLatestVersion(matching)>>)
  ELSE IF Falsy(sp.version) THEN Outcome("Ambiguous", matching)
  ELSE Outcome("Matches", matching)

----------------------------------------------------------------------------
(* The bounded world: file slots, file texts, arguments *)

S_foo == <<"f", "o", "o">>
S_bar == <<"b", "a", "r">>
S_web == <<"w", "e", "b">>
S_api == <<"a", "p", "i">>
V_1_2_0 == <<"1", ".", "2", ".", "0">>
V_1_10_0 == <<"1", ".", "1", "0", ".", "0">>

\* a prompt file in the documented format
PromptText(name, namespace, version) ==
  Join(<<S_delim,
         S_name \o <<":", " ">> \o name,
         S_namespace \o <<":", " ">> \o namespace,
         S_version \o <<":", " ">> \o version,
         S_delim,
         <<"h", "i">> >>, "\n")

PlainText == <<"h", "i", "\n", "-", "-", "-">>

Texts ==
  { PromptText(S_foo, S_web, V_1_2_0),
    PromptText(S_foo, S_web, V_1_10_0),
    PromptText(S_foo, S_api, V_1_2_0),
    PromptText(S_bar, S_web, V_1_2_0),
    PlainText }

Slots ==
  { <<S_web, <<"a", ".", "m", "d">> >>,
    <<S_web, <<"b", ".", "m", "d">> >>,
    <<S_web, <<"c", ".", "t", "x", "t">> >>,
    <<S_api, <<"a", ".", "m", "d">> >> }

Args ==
  { S_foo,
    S_web \o <<"/">> \o S_foo,
    S_foo \o <<"@">> \o V_1_2_0,
    S_web \o <<"/">> \o S_foo \o <<"@">> \o V_1_2_0,
    S_foo \o <<"@">> \o S_latest,
    S_foo \o <<"@">> }

Choices == {<<"0">>, <<"1">>, <<"2">>, <<"3">>, <<"x">>}

EmptyRegistry(exists) ==
  [root |-> exists, denied |-> {}, extra |-> {}, files |-> <<>>]

\* no repository and no project: the commands of the other sections use neither
NoRepo == [configured |-> FALSE, commits |-> FALSE, changes |-> {}, fails |-> "none"]
NoProject ==
  [hasConfig |-> FALSE, prompts |-> <<>>, claude |-> "off", cursor |-> FALSE,
   files |-> <<>>, temp |-> {}, now |-> 0, todo |-> <<>>, next |-> 0, failed |-> FALSE]

SessionIdle ==
  /\ dryRun = FALSE
  /\ reply = <<>>
  /\ original = <<>>
  /\ started = <<>>
  /\ gitLog = <<>>
  /\ listed = <<>>

CommandIdle ==
  /\ SessionIdle
  /\ repo = NoRepo
  /\ project = NoProject

OtherIdle ==
  /\ CommandIdle
  /\ versions = <<>>
  /\ result = <<>>
  /\ targetPrompt = Null
  /\ bumpType = <<>>
  /\ newVersion = <<>>
  /\ content = <<>>
  /\ valid = FALSE
  /\ written = NoFile
  /\ relisted = Null
  /\ fetched = Null

RegistryIdle ==
  /\ fs = EmptyRegistry(FALSE)
  /\ cmd = "none"
  /\ allVersions = FALSE
  /\ allPrompts = <<>>
  /\ matchingPrompts = <<>>
  /\ outcome = NoOutcome

----------------------------------------------------------------------------
(* The registry and the commands working on it *)

Init ==
  /\ pc = "idle"
  /\ raw = <<>>
  /\ path = Undefined
  /\ spec = NoSpec
  /\ fileRead = ReadThrows
  /\ meta = <<>>
  /\ parsed = Null
  /\ fs \in {EmptyRegistry(FALSE), EmptyRegistry(TRUE)}
  /\ cmd = "none"
  /\ allVersions = FALSE
  /\ allPrompts = <<>>
  /\ matchingPrompts = <<>>
  /\ outcome = NoOutcome
  /\ OtherIdle

FileCount(f) == Cardinality(DOMAIN f.files) + Cardinality(f.extra)

\* somebody (an editor, git, a shell) writes a file of a namespace directory
EnvWrite ==
  /\ pc = "idle"
  /\ fs.root
  /\ \E slot \in Slots, text \in Texts :
       /\ slot \in DOMAIN fs.files \/ FileCount(fs) < MaxFiles
       /\ fs' = [fs EXCEPT !.files = Put(fs.files, slot, text)]
  /\ UNCHANGED <<pc, specVars, parserVars, runVars>>
  /\ UNCHANGED otherVars

\* somebody removes one
EnvUnlink ==
  /\ pc = "idle"
  /\ \E slot \in DOMAIN fs.files :
       fs' = [fs EXCEPT !.files = [x \in DOMAIN fs.files \ {slot} |-> fs.files[x]]]
  /\ UNCHANGED <<pc, specVars, parserVars, runVars>>
  /\ UNCHANGED otherVars

\* somebody puts a plain file into the root directory
EnvWriteRoot ==
  /\ pc = "idle"
  /\ fs.root
  /\ FileCount(fs) < MaxFiles
  /\ \E name \in RootFileNames \ fs.extra : fs' = [fs EXCEPT !.extra = fs.extra \cup {name}]
  /\ UNCHANGED <<pc, specVars, parserVars, runVars>>
  /\ UNCHANGED otherVars

\* somebody takes the read permission of a namespace directory away, or gives it back
EnvChmod ==
  /\ pc = "idle"
  /\ fs.root
  /\ \E dir \in DirNames :
       fs' = [fs EXCEPT !.denied = IF dir \in fs.denied THEN fs.denied \ {dir}
                                   ELSE fs.denied \cup {dir}]
  /\ UNCHANGED <<pc, specVars, parserVars, runVars>>
  /\ UNCHANGED otherVars

\* edit.ts lines 227-278: `edit <promptArg>` up to the target, or the question
EditResolve ==
  /\ pc = "idle"
  /\ \E promptArg \in Args, rootOrder \in RootOrders(fs), fileOrder \in FileOrders(fs) :
       \E sp \in {parsePromptSpec(promptArg)},
          found \in {findPrompts(fs, rootOrder, fileOrder)} :
       \E matching \in {MatchingPrompts(found, sp)} :
       \E o \in {EditTarget(matching, sp)} :
          /\ raw' = promptArg
          /\ path' = SpecPath(promptArg).path
          /\ spec' = sp
          /\ allPrompts' = found
          /\ matchingPrompts' = matching
          /\ outcome' = o
          /\ pc' = IF o.kind = "Ambiguous" THEN "choose" ELSE "resolved"
  /\ cmd' = "edit"
  /\ allVersions' = FALSE
  /\ UNCHANGED <<parserVars, fs>>
  /\ UNCHANGED otherVars

\* edit.ts lines 263-283: the answer to 'Select version to edit (number)'
EditChoose ==
  /\ pc = "choose"
  /\ cmd = "edit"
  /\ \E choice \in Choices :
       LET index == ParseInt(choice).n - 1
       IN outcome' =
            IF ParseInt(choice).nan THEN Outcome("PromptNotFound", <<>>)
            ELSE IF index < 0 \/ index >= Len(matchingPrompts) THEN Outcome("InvalidSelection", <<>>)
            ELSE Outcome("Chosen", <<matchingPrompts[index + 1]>>)
  /\ pc' = "resolved"
  /\ UNCHANGED <<specVars, parserVars, fs, cmd, allVersions, allPrompts, matchingPrompts>>
  /\ UNCHANGED otherVars

\* delete lines 157-218: `delete <promptArg> [--all-versions]` up to the targets
DeleteResolve ==
  /\ pc = "idle"
  /\ \E promptArg \in Args, all \in BOOLEAN,
        rootOrder \in RootOrders(fs), fileOrder \in FileOrders(fs) :
       \E sp \in {parsePromptSpec(promptArg)},
          found \in {findPrompts(fs, rootOrder, fileOrder)} :
       \E matching \in {MatchingPrompts(found, sp)} :
       \E o \in {DeleteTarget(matching, sp, all)} :
          /\ raw' = promptArg
          /\ allVersions' = all
          /\ path' = SpecPath(promptArg).path
          /\ spec' = sp
          /\ allPrompts' = found
          /\ matchingPrompts' = matching
          /\ outcome' = o
          /\ pc' = IF o.kind = "Ambiguous" THEN "choose" ELSE "resolved"
  /\ cmd' = "delete"
  /\ UNCHANGED <<parserVars, fs>>
  /\ UNCHANGED otherVars

\* delete lines 201-215: the answer to 'Select version to delete (number)'
DeleteChoose ==
  /\ pc = "choose"
  /\ cmd = "delete"
  /\ \E choice \in Choices :
       LET index == ParseInt(choice).n - 1
       IN outcome' =
            IF ParseInt(choice).nan THEN Outcome("InvalidSelection", <<>>)
            ELSE IF index = Len(matchingPrompts) THEN Outcome("AllVersions", matchingPrompts)
            ELSE IF index >= 0 /\ index < Len(matchingPrompts)
            THEN Outcome("Chosen", <<matchingPrompts[index + 1]>>)
            ELSE Outcome("InvalidSelection", <<>>)
  /\ pc' = "resolved"
  /\ UNCHANGED <<specVars, parserVars, fs, cmd, allVersions, allPrompts, matchingPrompts>>
  /\ UNCHANGED otherVars

\* the command returns
Finish ==
  /\ pc = "resolved"
  /\ pc' = "idle"
  /\ raw' = <<>>
  /\ path' = Undefined
  /\ spec' = NoSpec
  /\ cmd' = "none"
  /\ allVersions' = FALSE
  /\ allPrompts' = <<>>
  /\ matchingPrompts' = <<>>
  /\ outcome' = NoOutcome
  /\ UNCHANGED <<parserVars, fs>>
  /\ UNCHANGED otherVars

Next ==
  \/ EnvWrite
  \/ EnvUnlink
  \/ EnvWriteRoot
  \/ EnvChmod
  \/ EditResolve
  \/ EditChoose
  \/ DeleteResolve
  \/ DeleteChoose
  \/ Finish

Spec == Init /\ [][Next]_vars

----------------------------------------------------------------------------
(* Specification of the specifier parser: any raw argument, then the parse *)

SpecChars == {"a", "b", "/", "@"}

RECURSIVE SeqsUpTo(_, _)
SeqsUpTo(S, n) ==
  IF n = 0 THEN {<<>>}
  ELSE LET shorter == SeqsUpTo(S, n - 1)
       IN shorter \cup {Append(s, c) : s \in {t \in shorter : Len(t) = n - 1}, c \in S}

InitSpecifier ==
  /\ pc = "arg"
  /\ raw \in SeqsUpTo(SpecChars, MaxSpecLen)
  /\ path = Undefined
  /\ spec = NoSpec
  /\ fileRead = ReadThrows
  /\ meta = <<>>
  /\ parsed = Null
  /\ RegistryIdle
  /\ OtherIdle

ParseSpecifier ==
  /\ pc = "arg"
  /\ pc' = "parsed"
  /\ path' = SpecPath(raw).path
  /\ spec' = parsePromptSpec(raw)
  /\ UNCHANGED <<raw, parserVars, registryVars>>
  /\ UNCHANGED otherVars

NextSpecifier == ParseSpecifier

SpecSpecifier == InitSpecifier /\ [][NextSpecifier]_vars

----------------------------------------------------------------------------
(* Specification of the frontmatter parser: any file of at most MaxLines   *)
(* lines, or an unreadable one, then the parse                             *)

FileLines ==
  { S_delim,
    <<" ", "-", "-", "-", "\r">>,
    <<"n", "a", "m", "e", ":", " ", "a">>,
    <<"n", "a", "m", "e", ":", "\"", "b", "\"", " ">>,
    <<"a", "u", "t", "h", "o", "r", ":">>,
    <<"t", "a", "g", "s", ":", " ", "[", "\"", "x", "\"", ",", " ", "\"", "y", "\"", "]">>,
    <<"t", "a", "g", "s", ":", " ", "5">>,
    <<"t", "a", "g", "s", ":", " ", "[", "x">>,
    <<"t", "e", "x", "t">> }

FilePath == <<"w", "/", "f", ".", "m", "d">>

InitParser ==
  /\ pc = "file"
  /\ fileRead \in {ReadThrows} \cup {ReadOk(Join(ls, "\n")) : ls \in SeqsUpTo(FileLines, MaxLines)}
  /\ meta = <<>>
  /\ parsed = Null
  /\ raw = <<>>
  /\ path = Undefined
  /\ spec = NoSpec
  /\ RegistryIdle
  /\ OtherIdle

ParseFile ==
  /\ pc = "file"
  /\ pc' = "parsed"
  /\ meta' = IF ParseBody(FilePath, fileRead).kind = "record"
              THEN Metadata(Split(fileRead.text, "\n")) ELSE <<>>
  /\ parsed' = parsePromptFile(FilePath, fileRead)
  /\ UNCHANGED <<specVars, fileRead, registryVars>>
  /\ UNCHANGED otherVars

NextParser == ParseFile

SpecParser == InitParser /\ [][NextParser]_vars

----------------------------------------------------------------------------
(* Specification of the version functions: some version strings, then one  *)
(* of parseVersion, bumpVersion and getLatestVersion                       *)

VersionStrings ==
  { <<"1", ".", "2", ".", "3">>,
    <<"1", ".", "1", "0", ".", "0">>,
    <<"1", ".", "9", ".", "9">>,
    <<"2", ".", "0", ".", "0">>,
    <<"2", ".", "5">>,
    <<"a", "b", "c">>,
    <<"1", ".", "2", ".", "3", ".", "4">>,
    <<"-", "1", ".", "2", ".", "3">>,
    <<"1", ".", "x", ".", "3">>,
    <<>>,
    <<"1", ".", ".", "3">>,
    <<"1", "a", ".", "0", ".", "0">>,
    <<" ", "2", ".", "0", ".", "0">>,
    <<"0", "x", "1", "0", ".", "0", ".", "0">>,
    <<"0", "1", ".", "2", ".", "3">> }

\* records that have these versions, in this order; file tells them apart
VersionRecords(vs) == [i \in 1..Len(vs) |-> [version |-> vs[i], file |-> i]]

InitVersion ==
  /\ CommandIdle
  /\ pc = "version"
  /\ versions \in SeqsUpTo(VersionStrings, MaxVersions) \ {<<>>}
  /\ result = <<>>
  /\ bumpType = <<>>
  /\ raw = <<>>
  /\ path = Undefined
  /\ spec = NoSpec
  /\ fileRead = ReadThrows
  /\ meta = <<>>
  /\ parsed = Null
  /\ RegistryIdle
  /\ targetPrompt = Null
  /\ newVersion = <<>>
  /\ content = <<>>
  /\ valid = FALSE
  /\ written = NoFile
  /\ relisted = Null
  /\ fetched = Null

versionRest ==
  <<specVars, parserVars, registryVars, versions, targetPrompt, newVersion, content, valid,
    written, relisted, fetched>>

\* parseVersion(versions[0])
ParseVersion ==
  /\ UNCHANGED commandVars
  /\ pc = "version"
  /\ pc' = "parseVersion"
  /\ result' = parseVersion(versions[1])
  /\ UNCHANGED <<versionRest, bumpType>>

\* bumpVersion(versions[0], type)
BumpVersion ==
  /\ UNCHANGED commandVars
  /\ pc = "version"
  /\ pc' = "bumpVersion"
  /\ \E type \in BumpTypes :
       /\ bumpType' = type
       /\ result' = bumpVersion(versions[1], type)
  /\ UNCHANGED versionRest

\* getLatestVersion(prompts)
GetLatestVersion ==
  /\ UNCHANGED commandVars
  /\ pc = "version"
  /\ pc' = "getLatestVersion"
  /\ result' = getLatestVersion(VersionRecords(versions))
  /\ UNCHANGED <<versionRest, bumpType>>

NextVersion == ParseVersion \/ BumpVersion \/ GetLatestVersion

SpecVersion == InitVersion /\ [][NextVersion]_vars

----------------------------------------------------------------------------
(* Specification of the GitHub Action: a repository of at most MaxFiles    *)
(* prompt files, then one fetchPrompt                                      *)

LegacyFile == <<"f", "o", "o", ".", "m", "d">>
VersionedFile == <<"f", "o", "o", "-", "1", ".", "2", ".", "0", ".", "m", "d">>
NewerFile == <<"f", "o", "o", "-", "1", ".", "1", "0", ".", "0", ".", "m", "d">>

FetchSlots == { <<S_web, LegacyFile>>, <<S_web, VersionedFile>>, <<S_web, NewerFile>>,
                <<S_api, LegacyFile>> }

FetchTexts ==
  { PromptText(S_foo, S_web, V_1_2_0),
    PromptText(S_foo, S_web, V_1_10_0),
    PromptText(S_foo, S_api, V_1_2_0),
    PlainText }

FetchArgs ==
  { S_web \o <<"/">> \o S_foo \o <<"@">> \o V_1_2_0,
    S_foo \o <<"@">> \o V_1_2_0,
    S_foo \o <<"@">> \o S_latest,
    S_web \o <<"/">> \o S_foo \o <<"@">> \o S_latest,
    S_foo }

\* the repositories: every choice of at most MaxFiles files
Repositories ==
  {[root |-> TRUE, denied |-> {}, extra |-> {}, files |-> files] :
     files \in UNION {[slots -> FetchTexts] :
                        slots \in {x \in SUBSET FetchSlots : Cardinality(x) <= MaxFiles}}}

InitFetch ==
  /\ CommandIdle
  /\ pc = "fetch"
  /\ fs \in Repositories
  /\ raw = <<>>
  /\ fetched = Null
  /\ path = Undefined
  /\ spec = NoSpec
  /\ fileRead = ReadThrows
  /\ meta = <<>>
  /\ parsed = Null
  /\ cmd = "none"
  /\ allVersions = FALSE
  /\ allPrompts = <<>>
  /\ matchingPrompts = <<>>
  /\ outcome = NoOutcome
  /\ versions = <<>>
  /\ result = <<>>
  /\ targetPrompt = Null
  /\ bumpType = <<>>
  /\ newVersion = <<>>
  /\ content = <<>>
  /\ valid = FALSE
  /\ written = NoFile
  /\ relisted = Null

\* lines 452-479: run: the action fetches the prompt of its input
FetchPrompt ==
  /\ UNCHANGED commandVars
  /\ pc = "fetch"
  /\ pc' = "fetched"
  /\ \E promptSpec \in FetchArgs, rootOrder \in RootOrders(fs), fileOrder \in FileOrders(fs) :
       /\ raw' = promptSpec
       /\ \E prompt \in {fetchPrompt(fs, promptSpec, rootOrder, fileOrder)} : fetched' = prompt
  /\ UNCHANGED <<path, spec, parserVars, registryVars, versionVars, editVars>>

NextFetch == FetchPrompt

SpecFetch == InitFetch /\ [][NextFetch]_vars

----------------------------------------------------------------------------
(* Specification of validateHeader: a text with an opening line, the lines *)
(* of the required fields, a closing line and a body, then the validation  *)

Openings == { <<S_delim>>, <<S_delim \o <<" ">> >>, << <<"h", "i">>, S_delim>> }
Closings == { <<S_delim>>, << <<" ">> \o S_delim>>, <<>> }

\* where and how the line of a required field stands in the text
Variants == {"value", "empty", "indented", "absent", "after"}

HeaderChoices ==
  {c \in [1..Len(RequiredFields) -> Variants] :
     Cardinality({k \in 1..Len(RequiredFields) : c[k] # "value"}) <= MaxOddFields}

FieldLine(k, variant) ==
  IF variant = "empty" THEN RequiredFields[k] \o <<":">>
  ELSE IF variant = "indented" THEN <<" ">> \o RequiredFields[k] \o <<":", " ", "v">>
  ELSE RequiredFields[k] \o <<":", " ", "v">>

RECURSIVE FieldLines(_, _, _)
FieldLines(c, k, places) ==
  IF k > Len(RequiredFields) THEN <<>>
  ELSE (IF c[k] \in places THEN <<FieldLine(k, c[k])>> ELSE <<>>) \o FieldLines(c, k + 1, places)

HeaderContent(opening, c, closing) ==
  Join(opening \o FieldLines(c, 1, {"value", "empty", "indented"}) \o closing
       \o FieldLines(c, 1, {"after"}) \o << <<"h", "i">> >>, "\n")

baseVars == <<specVars, parserVars, registryVars>>

InitHeader ==
  /\ CommandIdle
  /\ pc = "header"
  /\ content \in {HeaderContent(o, c, e) : o \in Openings, c \in HeaderChoices, e \in Closings}
  /\ valid = FALSE
  /\ raw = <<>>
  /\ path = Undefined
  /\ spec = NoSpec
  /\ fileRead = ReadThrows
  /\ meta = <<>>
  /\ parsed = Null
  /\ RegistryIdle
  /\ versions = <<>>
  /\ result = <<>>
  /\ targetPrompt = Null
  /\ bumpType = <<>>
  /\ newVersion = <<>>
  /\ written = NoFile
  /\ relisted = Null
  /\ fetched = Null

\* validateHeader(content)
ValidateHeader ==
  /\ UNCHANGED commandVars
  /\ pc = "header"
  /\ pc' = "validated"
  /\ valid' = validateHeader(content)
  /\ UNCHANGED <<baseVars, versionVars, targetPrompt, bumpType, newVersion, content, written,
                 relisted, fetched>>

NextHeader == ValidateHeader

SpecHeader == InitHeader /\ [][NextHeader]_vars

----------------------------------------------------------------------------
(* Specification of the edit command from the opening of the editor on:    *)
(* a target record, the editor, the bump question, the new version file    *)

NameLines ==
  { <<"n", "a", "m", "e", ":", " ", "f", "o", "o">>,
    <<"n", "a", "m", "e", ":", "\"", "b", "\"", " ">> }
VersionLines ==
  { << <<"v", "e", "r", "s", "i", "o", "n", ":", " ", "1", ".", "2", ".", "3">> >>,
    << <<"v", "e", "r", "s", "i", "o", "n", ":", " ", "1", ".", "x", ".", "3">> >>,
    <<>> }
AuthorLines ==
  { << <<"a", "u", "t", "h", "o", "r", ":", " ", "m", "e">> >>,
    << <<"a", "u", "t", "h", "o", "r", ":", " ", " ">> >>,
    <<>> }
TagsLines ==
  { <<>>,
    << <<"t", "a", "g", "s", ":", " ", "[", "\"", "x", "\"", ",", " ", "\"", "y", "\"", "]">> >>,
    << <<"t", "a", "g", "s", ":", " ", "[", "\"", "a", "\\", "\"", "b", "\"", "]">> >>,
    << <<"t", "a", "g", "s", ":", " ", "5">> >>,
    << <<"t", "a", "g", "s", ":", " ", "\"", "a", "b", "c", "\"">> >>,
    << <<"t", "a", "g", "s", ":", " ", "[", "1", "]">> >> }

\* the files the target record is parsed from
EditTexts ==
  {Join(<<S_delim, n,
          <<"n", "a", "m", "e", "s", "p", "a", "c", "e", ":", " ", "w", "e", "b">>,
          <<"d", "e", "s", "c", "r", "i", "p", "t", "i", "o", "n", ":", " ", "d">> >>
        \o v \o a \o t \o <<S_delim, <<"h", "i">> >>, "\n") :
     n \in NameLines, v \in VersionLines, a \in AuthorLines, t \in TagsLines}

BumpAnswers ==
  { S_major, <<"M", "I", "N", "O", "R">>, <<"P", "a", "t", "c", "h">>, <<"x">>, <<>>,
    <<" ", "p", "a", "t", "c", "h">> }

\* what the editor leaves in the file
EditedContents ==
  { <<"h", "i">>,
    <<"-", "-", "-", "\n", "n", "a", "m", "e", ":", " ", "x", "\n", "-", "-", "-", "\n">> }

InitEdit ==
  /\ CommandIdle
  /\ pc = "editor"
  /\ targetPrompt \in {parsePromptFile(FilePath, ReadOk(text)) : text \in EditTexts}
  /\ bumpType = <<>>
  /\ newVersion = <<>>
  /\ content = <<>>
  /\ valid = FALSE
  /\ written = NoFile
  /\ relisted = Null
  /\ raw = <<>>
  /\ path = Undefined
  /\ spec = NoSpec
  /\ fileRead = ReadThrows
  /\ meta = <<>>
  /\ parsed = Null
  /\ RegistryIdle
  /\ versions = <<>>
  /\ result = <<>>
  /\ fetched = Null

\* edit.ts lines 299-305: the editor exits; on an error the original file is
\* written back and the command ends
EditorClose ==
  /\ UNCHANGED commandVars
  /\ pc = "editor"
  /\ \E code \in {0, 1} : pc' = IF code # 0 THEN "done" ELSE "ask"
  /\ UNCHANGED <<baseVars, versionVars, editVars, fetched>>

\* edit.ts lines 314-363: one answer to the bump question; an answer that is
\* not a bump type puts the question again, a bump type ends the loop and
\* the new version file is written and validated
AnswerBump ==
  /\ UNCHANGED commandVars
  /\ pc = "ask"
  /\ \E answer \in BumpAnswers, editedContent \in EditedContents :
       /\ bumpType' = answer
       /\ IF ~ValidBumpType(answer)
          THEN /\ pc' = "ask"
               /\ UNCHANGED <<fileRead, newVersion, content, valid, written>>
          ELSE \E version \in {bumpVersion(targetPrompt.version, ToLowerCase(answer))},
                  tagsStr \in {TagsStr(targetPrompt.tags)} :
                 IF tagsStr.threw
                 THEN /\ pc' = "crashed"
                      /\ newVersion' = version
                      /\ fileRead' = ReadOk(editedContent)
                      /\ UNCHANGED <<content, valid, written>>
                 ELSE \E finalContent \in {NewHeader(targetPrompt, version, tagsStr.text)
                                            \o editedContent} :
                        /\ newVersion' = version
                        /\ fileRead' = ReadOk(editedContent)
                        /\ content' = finalContent
                        /\ written' = [path |-> NewFilePath(targetPrompt, version),
                                       text |-> finalContent]
                        /\ valid' = validateHeader(finalContent)
                        /\ pc' = IF validateHeader(finalContent) THEN "saved" ELSE "done"
  /\ UNCHANGED <<specVars, meta, parsed, registryVars, versionVars, targetPrompt, relisted,
                 fetched>>

\* a later command lists the registry: findPrompts parses the new file
Relist ==
  /\ UNCHANGED commandVars
  /\ pc = "saved"
  /\ pc' = "relisted"
  /\ relisted' = parsePromptFile(written.path, ReadOk(written.text))
  /\ UNCHANGED <<baseVars, versionVars, targetPrompt, bumpType, newVersion, content, valid,
                 written, fetched>>

NextEdit == EditorClose \/ AnswerBump \/ Relist

SpecEdit == InitEdit /\ [][NextEdit]_vars

----------------------------------------------------------------------------
(* The edit and delete commands after the target selection: the files      *)
(* they write and unlink, the questions they put, the git operations       *)

S_y == <<"y">>
S_yes == <<"y", "e", "s">>

YesAny(a) == TRUE

\* delete line 261, edit.ts line 373: answer.toLowerCase() === 'y' || ... === 'yes'
Yes(a) == ToLowerCase(a) \in {S_y, S_yes}

\* edit.ts lines 167-188: extractContent
extractContent(text) ==
  LET lines == Split(text, "\n")
      endIndex == EndIndex(lines)
  IN IF endIndex = -1 THEN text
     ELSE Join(SubSeq(lines, endIndex + 2, Len(lines)), "\n")

\* basename(file)
Basename(file) ==
  IF Includes(file, "/") THEN SubSeq(file, LastIndexOf(file, "/") + 2, Len(file)) ELSE file

\* the directory entry a path of the registry names
SlotOf(file) == <<SubSeq(file, 1, LastIndexOf(file, "/")), Basename(file)>>

\* writeFileSync(file, text)
WriteFile(f, slot, text) == [f EXCEPT !.files = Put(f.files, slot, text)]

\* unlinkSync of every file of slots
Unlink(f, slots) == [f EXCEPT !.files = [x \in DOMAIN f.files \ slots |-> f.files[x]]]

\* delete lines 276-283: the files of the loop over targetPrompts
TargetSlots(targetPrompts) == {SlotOf(targetPrompts[i].file) : i \in 1..Len(targetPrompts)}

\* delete lines 285-300: git.add of every deleted file, git.commit, git.push
DeleteGit(targetPrompts) ==
  [i \in 1..Len(targetPrompts) |-> "add"] \o <<"commit", "push">>

\* edit.ts lines 376-381, new.ts lines 463-465: git.add, git.commit, git.push
AddCommitPush == <<"add", "commit", "push">>

Answers == { <<"Y">>, <<"y", "e", "s">>, <<"n">> }

\* the answers to the bump question in a session on the registry
SessionBumpAnswers == { <<"P", "a", "t", "c", "h">>, <<"x">> }

\* the registries a run starts from: at most MaxFiles prompt files
StartSlots ==
  { <<S_web, <<"a", ".", "m", "d">> >>,
    <<S_api, <<"a", ".", "m", "d">> >>,
    <<S_web, <<"f", "o", "o", "-", "1", ".", "2", ".", "1", ".", "m", "d">> >> }

StartTexts ==
  { PromptText(S_foo, S_web, V_1_2_0),
    PromptText(S_foo, S_api, V_1_2_0) }

StartRegistries ==
  {[root |-> TRUE, denied |-> denied, extra |-> {}, files |-> files] :
     denied \in {{}, {S_web}},
     files \in UNION {[slots -> StartTexts] :
                        slots \in {x \in SUBSET StartSlots : Cardinality(x) <= MaxFiles}}}

InitRegistry ==
  /\ pc = "idle"
  /\ fs \in StartRegistries
  /\ raw = <<>>
  /\ path = Undefined
  /\ spec = NoSpec
  /\ fileRead = ReadThrows
  /\ meta = <<>>
  /\ parsed = Null
  /\ cmd = "none"
  /\ allVersions = FALSE
  /\ allPrompts = <<>>
  /\ matchingPrompts = <<>>
  /\ outcome = NoOutcome
  /\ OtherIdle

\* the command ends before any target is chosen (no match, several matches
\* for edit, an invalid selection)
ReturnEarly ==
  /\ Len(outcome.records) = 0
  /\ Finish

\* delete lines 242-265: --dry-run ends the command; otherwise the
\* confirmation is asked and any answer but y / yes ends it
DeleteConfirm ==
  /\ pc = "resolved"
  /\ cmd = "delete"
  /\ Len(outcome.records) > 0
  /\ started' = fs.files
  /\ \E dry \in BOOLEAN, a \in Answers :
       /\ dryRun' = dry
       /\ reply' = IF dry THEN <<>> ELSE <<a>>
       /\ pc' = IF ~dry /\ Yes(a) THEN "remote" ELSE "done"
  /\ UNCHANGED <<specVars, parserVars, registryVars, versionVars, editVars, fetched, syncVars,
                 original, gitLog, listed>>

\* delete lines 267-300: the question about the remote, the unlink of every
\* target and, on y / yes, the commit of the deletion
DeleteFiles ==
  /\ pc = "remote"
  /\ cmd = "delete"
  /\ \E remoteAnswer \in Answers :
       /\ reply' = reply \o <<remoteAnswer>>
       /\ gitLog' = IF Yes(remoteAnswer) THEN gitLog \o DeleteGit(outcome.records) ELSE gitLog
  /\ fs' = Unlink(fs, TargetSlots(outcome.records))
  /\ pc' = "done"
  /\ UNCHANGED <<specVars, parserVars, runVars, versionVars, editVars, fetched, syncVars,
                 dryRun, original, started, listed>>

\* edit.ts lines 283-297: the target file is read, its text without the
\* header is written back and the editor is opened on it; a session starts
\* only on a target that holds one of StartTexts, and while the new version
\* file is there already or the registry has room for it
EditOpen ==
  /\ pc = "resolved"
  /\ cmd = "edit"
  /\ Len(outcome.records) = 1
  /\ fs.files[SlotOf(outcome.records[1].file)] \in StartTexts
  /\ \/ FileCount(fs) < MaxFiles
     \/ \E a \in SessionBumpAnswers :
          /\ ValidBumpType(a)
          /\ SlotOf(NewFilePath(outcome.records[1],
                                bumpVersion(outcome.records[1].version, ToLowerCase(a))))
               \in DOMAIN fs.files
  /\ targetPrompt' = outcome.records[1]
  /\ original' = fs.files[SlotOf(outcome.records[1].file)]
  /\ started' = fs.files
  /\ fs' = WriteFile(fs, SlotOf(outcome.records[1].file),
                     extractContent(fs.files[SlotOf(outcome.records[1].file)]))
  /\ \E dry \in BOOLEAN : dryRun' = dry
  /\ pc' = "editor"
  /\ UNCHANGED <<specVars, parserVars, runVars, versionVars, bumpType, newVersion, content,
                 valid, written, relisted, fetched, reply, gitLog, listed, syncVars>>

\* the user saves the file in the editor
EditorSave ==
  /\ pc = "editor"
  /\ cmd = "edit"
  /\ \E text \in EditedContents : fs' = WriteFile(fs, SlotOf(targetPrompt.file), text)
  /\ UNCHANGED <<pc, specVars, parserVars, runVars, versionVars, editVars, fetched,
                 commandVars>>

EditorExitNoRestore ==
  /\ pc = "editor"
  /\ cmd = "edit"
  /\ \E code \in {0, 1} : pc' = IF code # 0 THEN "done" ELSE "ask"
  /\ UNCHANGED <<fs, specVars, parserVars, runVars, versionVars, editVars, fetched,
                 commandVars>>

\* edit.ts lines 300-306: the editor exits; on an error the original text
\* is written back and the command ends
EditorExit ==
  /\ pc = "editor"
  /\ cmd = "edit"
  /\ \E code \in {0, 1} :
       IF code # 0
       THEN /\ fs' = WriteFile(fs, SlotOf(targetPrompt.file), original)
            /\ pc' = "done"
       ELSE /\ fs' = fs
            /\ pc' = "ask"
  /\ UNCHANGED <<specVars, parserVars, runVars, versionVars, editVars, fetched,
                 commandVars>>

\* the new version file and the restored target: lines 350 and 353
BumpWrites(f, target, version, finalContent, fullContent) ==
  WriteFile(WriteFile(f, SlotOf(NewFilePath(target, version)), finalContent),
            SlotOf(target.file), fullContent)

\* edit.ts lines 314-363: one answer to the bump question; a bump type ends
\* the loop: the new version file is written, the target file gets its
\* original text back, the header is validated, --dry-run ends the command
EditBump ==
  /\ pc = "ask"
  /\ cmd = "edit"
  /\ \E a \in SessionBumpAnswers :
       /\ bumpType' = a
       /\ IF ~ValidBumpType(a)
          THEN /\ pc' = "ask"
               /\ UNCHANGED <<fs, newVersion, content, valid, written>>
          ELSE \E version \in {bumpVersion(targetPrompt.version, ToLowerCase(a))},
                  tagsStr \in {TagsStr(targetPrompt.tags)} :
                 IF tagsStr.threw
                 THEN /\ pc' = "done"
                      /\ newVersion' = version
                      /\ UNCHANGED <<fs, content, valid, written>>
                 ELSE \E finalContent \in {NewHeader(targetPrompt, version, tagsStr.text)
                                            \o fs.files[SlotOf(targetPrompt.file)]} :
                        /\ newVersion' = version
                        /\ content' = finalContent
                        /\ written' = [path |-> NewFilePath(targetPrompt, version),
                                       text |-> finalContent]
                        /\ fs' = BumpWrites(fs, targetPrompt, version, finalContent, original)
                        /\ \E ok \in {validateHeader(finalContent)} :
                             /\ valid' = ok
                             /\ pc' = IF ok /\ ~dryRun THEN "push" ELSE "done"
  /\ UNCHANGED <<specVars, parserVars, runVars, versionVars, targetPrompt, relisted, fetched,
                 commandVars>>

\* edit.ts lines 368-402: commit and push on y / yes; otherwise the question
\* whether the new version is deleted locally
EditPush ==
  /\ pc = "push"
  /\ cmd = "edit"
  /\ \E a \in Answers, deleteAnswer \in Answers :
       IF Yes(a)
       THEN /\ reply' = <<a>>
            /\ gitLog' = gitLog \o AddCommitPush
            /\ fs' = fs
       ELSE /\ reply' = <<a, deleteAnswer>>
            /\ gitLog' = gitLog
            /\ fs' = IF Yes(deleteAnswer) THEN Unlink(fs, {SlotOf(written.path)}) ELSE fs
  /\ pc' = "done"
  /\ UNCHANGED <<specVars, parserVars, runVars, versionVars, editVars, fetched, syncVars,
                 dryRun, original, started, listed>>

\* another process lists the registry while the edit session is open
ConcurrentList ==
  /\ pc \in {"editor", "ask"}
  /\ cmd = "edit"
  /\ \E rootOrder \in RootOrders(fs), fileOrder \in FileOrders(fs) :
       \E found \in {findPrompts(fs, rootOrder, fileOrder)} : listed' = found
  /\ UNCHANGED <<pc, specVars, parserVars, registryVars, versionVars, editVars, fetched, syncVars,
                 dryRun, reply, original, started, gitLog>>

\* the command has ended
Return ==
  /\ pc = "done"
  /\ pc' = "idle"
  /\ raw' = <<>>
  /\ path' = Undefined
  /\ spec' = NoSpec
  /\ cmd' = "none"
  /\ allVersions' = FALSE
  /\ allPrompts' = <<>>
  /\ matchingPrompts' = <<>>
  /\ outcome' = NoOutcome
  /\ targetPrompt' = Null
  /\ bumpType' = <<>>
  /\ newVersion' = <<>>
  /\ content' = <<>>
  /\ valid' = FALSE
  /\ written' = NoFile
  /\ dryRun' = FALSE
  /\ reply' = <<>>
  /\ original' = <<>>
  /\ started' = <<>>
  /\ gitLog' = <<>>
  /\ listed' = <<>>
  /\ UNCHANGED <<parserVars, fs, versionVars, relisted, fetched, syncVars>>

NextRegistry ==
  \/ EnvUnlink
  \/ EditResolve
  \/ EditChoose
  \/ DeleteResolve
  \/ DeleteChoose
  \/ ReturnEarly
  \/ DeleteConfirm
  \/ DeleteFiles
  \/ EditOpen
  \/ EditorSave
  \/ EditorExit
  \/ EditBump
  \/ EditPush
  \/ ConcurrentList
  \/ Return

SpecRegistry == InitRegistry /\ [][NextRegistry]_vars

----------------------------------------------------------------------------
(* The sync command (sync.ts): the local clone as git sees it.              *)
(*   configured  ~/.config/promptdock/config.json can be read               *)
(*   commits     the repository has at least one commit                     *)
(*   changes     the files git status reports (status.files)                *)
(*   fails       the git call that throws, or "none"                        *)

SyncFiles == {"web/a.md", "api/a.md", "notes.txt"}

\* the files of status.files that are not tracked: reset --hard leaves them
Untracked == {"notes.txt"}

GitCalls == {"log", "status", "fetch", "reset --hard", "pull"}

Repos ==
  [configured : BOOLEAN, commits : BOOLEAN, changes : SUBSET SyncFiles,
   fails : GitCalls \cup {"none"}]

\* sync.ts lines 64-67: catch (logError) { await git.fetch(); ... }
EmptyRepo == <<"fetch">>

\* the git calls of a block up to the first one that throws, then the catch
\* of lines 64-67, which takes whatever was thrown in the inner try
Calls(r, ops) ==
  IF \E i \in 1..Len(ops) : ops[i] = r.fails
  THEN SubSeq(ops, 1, CHOOSE i \in 1..Len(ops) : ops[i] = r.fails) \o EmptyRepo
  ELSE ops

Threw(r, ops) == \E i \in 1..Len(ops) : ops[i] = r.fails

\* sync.ts line 25: git.log(['-1']) throws in a repository without commits
LogThrows(r) == ~r.commits \/ r.fails = "log"

\* sync.ts lines 52-55: the hard sync
HardSync == <<"fetch", "reset --hard">>

SafePullReset == <<"fetch", "reset --hard">>

\* sync.ts lines 58-61: no local changes, safe to pull
SafePull == <<"fetch", "pull">>

\* git reset --hard: the changes to tracked files are gone
Reset(r) == [r EXCEPT !.changes = r.changes \cap Untracked]

InitSync ==
  /\ pc = "idle"
  /\ repo \in Repos
  /\ project = NoProject
  /\ SessionIdle
  /\ fs = [root |-> TRUE, denied |-> {}, extra |-> {}, files |-> <<>>]
  /\ raw = <<>>
  /\ path = Undefined
  /\ spec = NoSpec
  /\ fileRead = ReadThrows
  /\ meta = <<>>
  /\ parsed = Null
  /\ cmd = "none"
  /\ allVersions = FALSE
  /\ allPrompts = <<>>
  /\ matchingPrompts = <<>>
  /\ outcome = NoOutcome
  /\ versions = <<>>
  /\ result = <<>>
  /\ targetPrompt = Null
  /\ bumpType = <<>>
  /\ newVersion = <<>>
  /\ content = <<>>
  /\ valid = FALSE
  /\ written = NoFile
  /\ relisted = Null
  /\ fetched = Null

\* sync.ts lines 13-47 and 56-67: from the start of the action to the
\* question, or to the end when no question is put
SyncRun ==
  /\ pc = "idle"
  /\ cmd' = "sync"
  /\ IF ~repo.configured
     THEN gitLog' = <<>> /\ pc' = "done"
     ELSE IF LogThrows(repo)
     THEN gitLog' = <<"log">> \o EmptyRepo /\ pc' = "done"
     ELSE IF repo.fails = "status"
     THEN gitLog' = <<"log", "status">> \o EmptyRepo /\ pc' = "done"
     ELSE IF repo.changes # {}
     THEN gitLog' = <<"log", "status">> /\ pc' = "question"
     ELSE gitLog' = <<"log", "status">> \o Calls(repo, SafePull) /\ pc' = "done"
  /\ UNCHANGED <<specVars, parserVars, fs, allVersions, allPrompts, matchingPrompts, outcome,
                 versionVars, editVars, fetched, dryRun, reply, original, started, listed,
                 syncVars>>

\* sync.ts lines 42-55: the answer to 'Do you want to do a hard sync?'
SyncAnswer ==
  /\ pc = "question"
  /\ cmd = "sync"
  /\ \E answer \in Answers :
       /\ reply' = <<answer>>
       /\ IF Yes(answer)
          THEN /\ gitLog' = gitLog \o Calls(repo, HardSync)
               /\ repo' = IF Threw(repo, HardSync) THEN repo ELSE Reset(repo)
          ELSE UNCHANGED <<gitLog, repo>>
  /\ pc' = "done"
  /\ UNCHANGED <<specVars, parserVars, registryVars, versionVars, editVars, fetched,
                 dryRun, original, started, listed, project>>

NextSync ==
  \/ SyncRun
  \/ SyncAnswer
  \/ Return

SpecSync == InitSync /\ [][NextSync]_vars

----------------------------------------------------------------------------
(* The pull command (pull.ts, providers.ts) in a project directory.         *)
(* A text of the project is a sequence of pieces, each a string; joining    *)
(* and concatenating texts keeps the pieces.  The project:                  *)
(*   hasConfig  prompt.json can be read                                     *)
(*   prompts    projectConfig.prompts, the configured collections           *)
(*   claude     projectConfig.providers.claude: "off", "plain", "commands"  *)
(*   cursor     projectConfig.providers.cursor is set                       *)
(*   files      path -> text, the files written below process.cwd()         *)
(*   temp       the .temp_<timestamp> directories that exist                *)
(*   now        Date.now()                                                  *)
(*   todo, next promptsToPull and the position of the loop in it            *)
(*   failed     the command ended through process.exit(1)                   *)

MaxCollections == 3
MaxClock == 3

\* the remote registry: namespace -> the files find lists below it, each with
\* the folder and the name findPromptFiles computes for it
Remote ==
  [web |-> <<[folder |-> "general", name |-> "style", content |-> <<"web style">>]>>,
   api |-> <<[folder |-> "rules", name |-> "rest", content |-> <<"api rest">>],
             [folder |-> "drafts", name |-> "auth", content |-> <<"api auth">>]>>,
   lib |-> <<>>]

\* the collections a prompt.json may configure
Collections ==
  {[name |-> "frontend", namespace |-> "web", folders |-> <<>>, providers |-> TRUE],
   [name |-> "backend", namespace |-> "api", folders |-> <<"rules">>, providers |-> TRUE],
   [name |-> "shared", namespace |-> "web", folders |-> <<>>, providers |-> FALSE],
   [name |-> "tools", namespace |-> "lib", folders |-> <<>>, providers |-> TRUE],
   [name |-> "docs", namespace |-> "docs", folders |-> <<>>, providers |-> TRUE]}

\* the sequences of at most n different members of S
Arrangements(S, n) ==
  {a \in UNION {[1..k -> S] : k \in 0..n} : \A i, j \in DOMAIN a : i # j => a[i] # a[j]}

Projects ==
  {[hasConfig |-> has, prompts |-> prompts, claude |-> claude, cursor |-> cursor,
    files |-> <<>>, temp |-> {}, now |-> 0, todo |-> <<>>, next |-> 0, failed |-> FALSE] :
     has \in BOOLEAN, prompts \in Arrangements(Collections, MaxCollections),
     claude \in {"off", "plain", "commands"}, cursor \in BOOLEAN}

\* pull.ts line 31: join(targetDir, '.temp_' + Date.now())
TempDir(now) == <<".temp_", now>>

\* pull.ts lines 30-58: downloadFromGit; how is "ok", or the call that throws
downloadFromGit(p, namespace, how) ==
  IF how = "clone" THEN [thrown |-> TRUE, files |-> <<>>, temp |-> p.temp \ {TempDir(p.now)}]
  ELSE IF namespace \notin DOMAIN Remote
  THEN [thrown |-> FALSE, files |-> <<>>, temp |-> p.temp \cup {TempDir(p.now)}]
  ELSE IF how = "find" THEN [thrown |-> TRUE, files |-> <<>>, temp |-> p.temp \ {TempDir(p.now)}]
  ELSE [thrown |-> FALSE, files |-> Remote[namespace], temp |-> p.temp \ {TempDir(p.now)}]

\* pull.ts lines 93-94
TargetFolder(file, configuredFolders) ==
  IF file.folder \in Range(configuredFolders) THEN file.folder ELSE "general"

\* pull.ts lines 85-100: organizePromptsByFolder, the folders in the order of
\* their insertion, each with its files
organizePromptsByFolder(files, configuredFolders) ==
  LET order == IF \E i \in 1..Len(files) : TargetFolder(files[i], configuredFolders) = "general"
                    /\ "general" \notin Range(configuredFolders)
               THEN configuredFolders \o <<"general">> ELSE configuredFolders
  IN [i \in 1..Len(order) |->
        [folder |-> order[i],
         files |-> SelectSeq(files, LAMBDA f : TargetFolder(f, configuredFolders) = order[i])]]

RECURSIVE Flatten(_)
Flatten(lists) == IF lists = <<>> THEN <<>> ELSE lists[1] \o Flatten(Tail(lists))

\* the files of every folder, in order
AllFiles(organizedPrompts) ==
  Flatten([i \in 1..Len(organizedPrompts) |-> organizedPrompts[i].files])

RECURSIVE WriteAll(_, _)
WriteAll(files, writes) ==
  IF writes = <<>> THEN files
  ELSE WriteAll(Put(files, writes[1].path, writes[1].content), Tail(writes))

\* pull.ts lines 104-122: savePromptsToFolders
savePromptsToFolders(organizedPrompts, promptName) ==
  Flatten([i \in 1..Len(organizedPrompts) |->
    [j \in 1..Len(organizedPrompts[i].files) |->
       [path |-> <<promptName, organizedPrompts[i].folder,
                   organizedPrompts[i].files[j].name, ".md">>,
        content |-> organizedPrompts[i].files[j].content]]])

\* pull.ts lines 182-187: allPromptContent
AllPromptContent(organizedPrompts) ==
  [i \in 1..Len(AllFiles(organizedPrompts)) |-> AllFiles(organizedPrompts)[i].content]

\* providers.ts lines 122-133
generateClaudeContent(prompts, includeCommands) ==
  <<"# Claude Instructions\n\n">> \o Join(prompts, "\n\n---\n\n")
    \o (IF includeCommands
        THEN <<"\n\n## Commands\n\n", "See commands.md for available commands and usage.\n">>
        ELSE <<>>)

\* providers.ts lines 138-207
generateClaudeCommands == <<"# Claude Commands">>

\* providers.ts lines 212-214
generateCursorContent(prompts) == Join(prompts, "\n\n")

\* providers.ts lines 23-104: generateProviderFiles, for the providers claude
\* and cursor with their default folders and file name
generateProviderFiles(p, promptContent) ==
  (IF p.claude = "off" THEN <<>>
   ELSE <<[path |-> <<".claude", "instructions.md">>,
           content |-> generateClaudeContent(promptContent, p.claude = "commands")]>>
        \o (IF p.claude = "commands"
            THEN <<[path |-> <<".claude", "commands.md">>, content |-> generateClaudeCommands]>>
            ELSE <<>>))
  \o (IF p.cursor
      THEN <<[path |-> <<".cursor", ".cursorrules">>,
              content |-> generateCursorContent(promptContent)]>>
      ELSE <<>>)

\* the paths generateProviderFiles gives the providers' instruction files
ProviderPaths(p) ==
  (IF p.claude = "off" THEN {} ELSE {<<".claude", "instructions.md">>})
    \cup (IF p.cursor THEN {<<".cursor", ".cursorrules">>} ELSE {})

\* pull.ts lines 169-191: the body of the loop for a collection with files
PullFiles(p, promptConfig, organizedPrompts) ==
  WriteAll(WriteAll(p.files, savePromptsToFolders(organizedPrompts, promptConfig.name)),
           IF promptConfig.providers
           THEN generateProviderFiles(p, AllPromptContent(organizedPrompts))
           ELSE <<>>)

\* --prompt <name>, or no such option
NoOption == "<undefined>"
PromptOptions == {NoOption, "backend", "other"}

InitPull ==
  /\ pc = "idle"
  /\ project \in {p \in Projects : p.hasConfig \/ p.prompts = <<>>}
  /\ repo = NoRepo
  /\ SessionIdle
  /\ fs = [root |-> TRUE, denied |-> {}, extra |-> {}, files |-> <<>>]
  /\ raw = <<>>
  /\ path = Undefined
  /\ spec = NoSpec
  /\ fileRead = ReadThrows
  /\ meta = <<>>
  /\ parsed = Null
  /\ cmd = "none"
  /\ allVersions = FALSE
  /\ allPrompts = <<>>
  /\ matchingPrompts = <<>>
  /\ outcome = NoOutcome
  /\ versions = <<>>
  /\ result = <<>>
  /\ targetPrompt = Null
  /\ bumpType = <<>>
  /\ newVersion = <<>>
  /\ content = <<>>
  /\ valid = FALSE
  /\ written = NoFile
  /\ relisted = Null
  /\ fetched = Null

\* pull.ts lines 127-156: the options and promptsToPull; allVersions holds
\* the option --all
PullStart ==
  /\ pc = "idle"
  /\ cmd' = "pull"
  /\ \E all \in BOOLEAN, prompt \in PromptOptions :
       \E promptsToPull \in
            {IF ~project.hasConfig \/ (~all /\ prompt = NoOption) THEN <<>>
             ELSE IF all THEN project.prompts
             ELSE SelectSeq(project.prompts, LAMBDA c : c.name = prompt)} :
          /\ project.now + Len(promptsToPull) <= MaxClock
          /\ allVersions' = all
          /\ project' = [project EXCEPT !.todo = promptsToPull, !.next = 1, !.failed = FALSE]
          /\ pc' = IF promptsToPull = <<>> THEN "done" ELSE "pulling"
  /\ UNCHANGED <<specVars, parserVars, fs, allPrompts, matchingPrompts, outcome,
                 versionVars, editVars, fetched, sessionVars, repo>>

\* pull.ts lines 163-194: one turn of the loop over promptsToPull; a throw
\* ends the command through the catch of lines 198-201
PullOne ==
  /\ pc = "pulling"
  /\ cmd = "pull"
  /\ \E how \in {"ok", "clone", "find"} :
       \E promptConfig \in {project.todo[project.next]} :
       \E got \in {downloadFromGit(project, promptConfig.namespace, how)} :
       \E organizedPrompts \in {organizePromptsByFolder(got.files, promptConfig.folders)} :
          /\ project' =
               [project EXCEPT
                  !.temp = got.temp,
                  !.now = project.now + 1,
                  !.failed = got.thrown,
                  !.next = IF got.thrown THEN project.next ELSE project.next + 1,
                  !.files = IF got.thrown \/ Len(got.files) = 0 THEN project.files
                            ELSE PullFiles(project, promptConfig, organizedPrompts)]
          /\ pc' = IF got.thrown \/ project.next = Len(project.todo) THEN "done" ELSE "pulling"
  /\ UNCHANGED <<specVars, parserVars, registryVars, versionVars, editVars, fetched,
                 sessionVars, repo>>

NextPull ==
  \/ PullStart
  \/ PullOne
  \/ Return

SpecPull == InitPull /\ [][NextPull]_vars

----------------------------------------------------------------------------
(* The new command (new.ts) on the registry *)

\* new.ts lines 329-331: name.toLowerCase().replace(/[^a-z0-9-]/g, '-')
\* .replace(/-+/g, '-')
RECURSIVE Squeeze(_)
Squeeze(s) ==
  IF Len(s) < 2 THEN s
  ELSE IF s[1] = "-" /\ s[2] = "-" THEN Squeeze(Tail(s))
  ELSE <<s[1]>> \o Squeeze(Tail(s))

sanitizeFilename(name) ==
  Squeeze([i \in 1..Len(name) |->
             IF ToLowerCase(name)[i] \in Range(LowerCase) \cup DigitChars \cup {"-"}
             THEN ToLowerCase(name)[i] ELSE "-"])

\* new.ts line 397: tags ? tags.split(',').map(tag => tag.trim()) : []
TagsArray(tags) ==
  IF Falsy(tags) THEN <<>>
  ELSE [i \in 1..Len(Split(tags, ",")) |-> Trim(Split(tags, ",")[i])]

\* new.ts lines 398-408: the frontmatter
Frontmatter(sanitizedName, namespace, version, finalAuthor, description, today, tagsArray) ==
  Join(<<S_delim,
         S_name \o <<":", " ">> \o sanitizedName,
         S_namespace \o <<":", " ">> \o namespace,
         S_version \o <<":", " ">> \o version,
         S_author \o <<":", " ">> \o finalAuthor,
         S_description \o <<":", " ">> \o description,
         S_created \o <<":", " ">> \o today
           \o (IF Len(tagsArray) > 0
               THEN <<"\n">> \o S_tags \o <<":", " ", "[">>
                      \o JoinWith([i \in 1..Len(tagsArray) |-> <<"\"">> \o tagsArray[i] \o <<"\"">>],
                                  <<",", " ">>)
                      \o <<"]">>
               ELSE <<>>),
         S_delim, <<>>, <<>> >>, "\n")

\* new.ts line 411
TempContent == <<"#", " ", "W", "r", "i", "t", "e", "\n", "\n">>

\* the arguments of a run of new
NewNames == { S_foo, <<"F", "o", "o">>, <<"f", "o", "o", "!", "!", "x">> }
NewNamespaces == { S_web, S_api }
NewVersions == { V_1_2_0, <<"1", ".", "2", ".", "1">> }
NewTags == { Undefined, <<"a", ",", " ", "b">> }
NewAuthor == <<"m", "e">>
NewDescription == <<"d">>
Today == <<"2", "0", "2", "4", "-", "0", "1", "-", "0", "2">>

\* the files the registry may hold when new starts
NewSlots ==
  { <<S_web, <<"f", "o", "o", "-", "1", ".", "2", ".", "0", ".", "m", "d">> >>,
    <<S_api, <<"f", "o", "o", "-", "1", ".", "2", ".", "1", ".", "m", "d">> >>,
    <<S_web, <<"a", ".", "m", "d">> >> }

InitNew ==
  /\ pc = "idle"
  /\ fs \in {[root |-> TRUE, denied |-> {}, extra |-> {}, files |-> files] :
               files \in UNION {[slots -> StartTexts] : slots \in SUBSET NewSlots}}
  /\ raw = <<>>
  /\ path = Undefined
  /\ spec = NoSpec
  /\ fileRead = ReadThrows
  /\ meta = <<>>
  /\ parsed = Null
  /\ cmd = "none"
  /\ allVersions = FALSE
  /\ allPrompts = <<>>
  /\ matchingPrompts = <<>>
  /\ outcome = NoOutcome
  /\ OtherIdle

\* new.ts lines 377-420: from the start of the action to the open editor;
\* written is promptFile and what the command wrote to it last, content the
\* frontmatter
NewOpen ==
  /\ pc = "idle"
  /\ cmd' = "new"
  /\ \E name \in NewNames, namespace \in NewNamespaces, version \in NewVersions,
        tags \in NewTags, dry \in BOOLEAN :
       \E sanitizedName \in {sanitizeFilename(name)} :
       \E promptFile \in {PathJoin(namespace, sanitizedName \o <<"-">> \o version \o S_md)} :
          /\ dryRun' = dry
          /\ started' = fs.files
          /\ content' = Frontmatter(sanitizedName, namespace, version, NewAuthor,
                                    NewDescription, Today, TagsArray(tags))
          /\ fs' = WriteFile(fs, SlotOf(promptFile), TempContent)
          /\ written' = [path |-> promptFile, text |-> TempContent]
  /\ pc' = "editor"
  /\ UNCHANGED <<specVars, parserVars, allVersions, allPrompts, matchingPrompts, outcome,
                 versionVars, targetPrompt, bumpType, newVersion, valid, relisted, fetched,
                 reply, original, gitLog, listed, syncVars>>

\* the user saves a text in the editor
NewEditorSave ==
  /\ pc = "editor"
  /\ cmd = "new"
  /\ \E text \in EditedContents : fs' = WriteFile(fs, SlotOf(written.path), text)
  /\ UNCHANGED <<pc, specVars, parserVars, runVars, versionVars, editVars, fetched,
                 commandVars>>

\* new.ts lines 422-444: the close handler up to the commit question
NewEditorExit ==
  /\ pc = "editor"
  /\ cmd = "new"
  /\ \E code \in {0, 1} :
       IF code # 0
       THEN /\ pc' = "done"
            /\ UNCHANGED <<fs, content, valid, written>>
       ELSE \E finalContent \in {content \o fs.files[SlotOf(written.path)]} :
              /\ fs' = WriteFile(fs, SlotOf(written.path), finalContent)
              /\ written' = [written EXCEPT !.text = finalContent]
              /\ content' = finalContent
              /\ valid' = validateHeader(finalContent)
              /\ pc' = IF valid' /\ ~dryRun THEN "push" ELSE "done"
  /\ UNCHANGED <<specVars, parserVars, runVars, versionVars, targetPrompt, bumpType,
                 newVersion, relisted, fetched, commandVars>>

\* new.ts lines 446-482: the commit question and the delete question
NewPush ==
  /\ pc = "push"
  /\ cmd = "new"
  /\ \E a \in Answers, deleteAnswer \in Answers :
       IF Yes(a)
       THEN /\ reply' = <<a>>
            /\ gitLog' = gitLog \o AddCommitPush
            /\ fs' = fs
       ELSE /\ reply' = <<a, deleteAnswer>>
            /\ gitLog' = gitLog
            /\ fs' = IF Yes(deleteAnswer) THEN Unlink(fs, {SlotOf(written.path)}) ELSE fs
  /\ pc' = "done"
  /\ UNCHANGED <<specVars, parserVars, runVars, versionVars, editVars, fetched, syncVars,
                 dryRun, original, started, listed>>

NextNew ==
  \/ NewOpen
  \/ NewEditorSave
  \/ NewEditorExit
  \/ NewPush

SpecNew == InitNew /\ [][NextNew]_vars

----------------------------------------------------------------------------
(* Properties of the specifier parser, checked under SpecSpecifier *)

AtPositions(s) == {i \in 1..Len(s) : s[i] = "@"}
SlashPositions(s) == {i \in 1..Len(s) : s[i] = "/"}

C5_SplitAtFirstSlash ==
  pc = "parsed" =>
    IF SlashPositions(path) = {}
    THEN spec.name = path /\ spec.namespace = Undefined
    ELSE \E i \in SlashPositions(path) :
           /\ \A j \in SlashPositions(path) : i <= j
           /\ spec.namespace = SubSeq(path, 1, i - 1)
           /\ spec.name = SubSeq(path, i + 1, Len(path))

----------------------------------------------------------------------------
(* Properties of the frontmatter parser, checked under SpecParser *)

FileText == Split(fileRead.text, "\n")

\* the lines of the file whose trimmed content is '---'
DelimiterLines(ft) == {i \in 1..Len(ft) : Trim(ft[i]) = S_delim}

Least(S) == CHOOSE i \in S : \A j \in S : i <= j

\* the first and the second of them
FirstDelimiter(ft) == Least(DelimiterLines(ft))
SecondDelimiter(ft) == Least(DelimiterLines(ft) \ {FirstDelimiter(ft)})

\* the lines strictly between them
BlockLines(ft) ==
  IF Cardinality(DelimiterLines(ft)) < 2 THEN {}
  ELSE {i \in 1..Len(ft) : FirstDelimiter(ft) < i /\ i < SecondDelimiter(ft)}

\* the ways to read a line as <word characters> ':' <white space> <remainder>
Readings(line) ==
  {r \in [k : 1..Len(line), j : 1..Len(line)] :
     /\ r.k < r.j /\ r.j < Len(line)
     /\ \A i \in 1..r.k : line[i] \in WordChars
     /\ line[r.k + 1] = ":"
     /\ \A i \in (r.k + 2)..r.j : line[i] \in WhiteSpace
     /\ \A i \in (r.j + 1)..Len(line) : line[i] \notin LineTerminators}

HasForm(line) == Readings(line) # {}

\* the key of such a line, and its remainder after all the white space the
\* pattern can take
KeyOf(line) == LET r == CHOOSE x \in Readings(line) : TRUE IN SubSeq(line, 1, r.k)
RemainderOf(line) ==
  LET r == CHOOSE x \in Readings(line) : \A y \in Readings(line) : y.j <= x.j
  IN SubSeq(line, r.j + 1, Len(line))

\* the lines of the block that have the form, each with its key and remainder
Entries(ft) ==
  {[line |-> i, key |-> KeyOf(ft[i]), remainder |-> RemainderOf(ft[i])] :
     i \in {j \in BlockLines(ft) : HasForm(ft[j])}}

\* those that give a value to key, the last of them, and the keys given
LinesOf(es, key) == {e \in es : e.key = key}
LastLineOf(es, key) == CHOOSE e \in LinesOf(es, key) : \A x \in LinesOf(es, key) : x.line <= e.line
BlockKeys(es) == {e.key : e \in es}

\* C6: a file with fewer than two lines whose trimmed content is '---' is
\* parsed to null, and whatever the file (an unreadable one included) the
\* parser returns a record or null and never throws.
C6_NullNeverThrows ==
  pc = "parsed" =>
    /\ parsed.kind \in {"record", "null"}
    /\ (~fileRead.ok \/ Cardinality(DelimiterLines(FileText)) < 2) => parsed.kind = "null"

\* a readable file with exactly one delimiter line has been parsed to null
C6_Witness ==
  /\ pc = "parsed"
  /\ fileRead.ok
  /\ Cardinality(DelimiterLines(FileText)) = 1
  /\ parsed = Null

IsStringArray(v) == v.t = "arr" /\ \A i \in 1..Len(v.a) : v.a[i].t = "str"

C8_TagsIsSequence ==
  (pc = "parsed" /\ parsed.kind = "record") =>
    \E es \in {Entries(FileText)} :
      /\ IsStringArray(parsed.tags)
      /\ LinesOf(es, S_tags) = {} => parsed.tags = JArr(<<>>)
      /\ LinesOf(es, S_tags) # {} =>
           \E r \in {JSONParse(LastLineOf(es, S_tags).remainder)} :
             /\ ~r.ok => parsed.tags = JArr(<<>>)
             /\ (r.ok /\ r.v.t = "arr") => parsed.tags = r.v

\* C9: a file with two delimiter lines always gives a record; a field with
\* no line in the block is "Unknown" ("No description" for description), and
\* a field with a line keeps the value parsed from it.
StringFields ==
  { <<S_name, S_Unknown>>, <<S_namespace, S_Unknown>>, <<S_version, S_Unknown>>,
    <<S_author, S_Unknown>>, <<S_description, S_NoDescription>>, <<S_created, S_Unknown>> }

FieldOf(record, key) ==
  CASE key = S_name -> record.name
    [] key = S_namespace -> record.namespace
    [] key = S_version -> record.version
    [] key = S_author -> record.author
    [] key = S_description -> record.description
    [] key = S_created -> record.created

----------------------------------------------------------------------------
(* Properties of the target selection, checked under Spec *)

\* the run stands right after the target selection, before any answer
Selected ==
  /\ cmd \in {"edit", "delete"}
  /\ outcome.kind \in {"NotFound", "Unique", "Ambiguous", "MultipleMatches", "Matches"}
  /\ ~allVersions

\* the records with the name, and the namespace if there is one, of the specifier
NameMatches ==
  {i \in 1..Len(allPrompts) :
     /\ allPrompts[i].name = spec.name
     /\ spec.namespace = Undefined \/ allPrompts[i].namespace = spec.namespace}

\* those of them with its version, if there is one
MatchSet ==
  {i \in NameMatches : spec.version = Undefined \/ allPrompts[i].version = spec.version}

\* a is at least b in the order on (major, minor, patch)
VersionAtLeast(a, b) ==
  LET x == parseVersion(a)
      y == parseVersion(b)
  IN \/ x.major > y.major
     \/ x.major = y.major /\ x.minor > y.minor
     \/ x.major = y.major /\ x.minor = y.minor /\ x.patch >= y.patch

\* C1: with the version "latest", whenever some record has the name (and the
\* namespace, if given) the selection is exactly one record, one of highest
\* version among them; it is neither NotFound nor Ambiguous.
C1_LatestPicksHighest ==
  (Selected /\ spec.version = S_latest /\ NameMatches # {}) =>
    /\ outcome.kind = "Unique"
    /\ \E i \in NameMatches :
         /\ outcome.records = <<allPrompts[i]>>
         /\ \A j \in NameMatches : VersionAtLeast(allPrompts[i].version, allPrompts[j].version)

\* C2: with no version and more than one match, every matching record is put
\* before the user, none dropped and none picked, in descending version order.
C2_AllCandidatesDescending ==
  (Selected /\ spec.version = Undefined /\ Cardinality(MatchSet) > 1) =>
    /\ outcome.kind = "Ambiguous"
    /\ Len(outcome.records) = Cardinality(MatchSet)
    /\ \A i \in MatchSet : \E k \in 1..Len(outcome.records) : outcome.records[k] = allPrompts[i]
    /\ \A k, l \in 1..Len(outcome.records) :
         k < l => VersionAtLeast(outcome.records[k].version, outcome.records[l].version)

\* the specifier has a concrete version or none, and a namespace or none
ConcreteOrNone ==
  /\ spec.version \notin {S_latest, <<>>}
  /\ spec.namespace # <<>>

PromptFiles ==
  {slot \in DOMAIN fs.files :
     /\ slot[1] \notin fs.denied
     /\ EndsWith(slot[2], S_md)
     /\ parsePromptFile(PathJoin(slot[1], slot[2]), ReadOk(fs.files[slot])).kind = "record"}

\* C10: findPrompts returns exactly one record for every .md file of a
\* namespace directory that parses to a record, and nothing else.
C10_OneRecordPerPromptFile ==
  cmd \in {"edit", "delete"} =>
    /\ Len(allPrompts) = Cardinality(PromptFiles)
    /\ \A slot \in PromptFiles :
         \E i \in 1..Len(allPrompts) :
           allPrompts[i] = parsePromptFile(PathJoin(slot[1], slot[2]), ReadOk(fs.files[slot]))

\* the root directory is missing, or it is there and has no entry
RootMissingOrEmpty ==
  \/ ~fs.root
  \/ fs.root /\ DirsOf(fs) = {} /\ fs.extra = {}

\* C11: with the root directory missing or empty findPrompts returns the
\* empty sequence, and the selection of edit and of delete ends in NotFound
\* for every specifier, never in another outcome.
C11_EmptyRootNotFound ==
  (cmd \in {"edit", "delete"} /\ RootMissingOrEmpty) =>
    /\ allPrompts = <<>>
    /\ matchingPrompts = <<>>
    /\ outcome.kind = "NotFound"
    /\ pc = "resolved"

\* edit has resolved a specifier against a root directory that is there and empty
C11_Witness ==
  /\ cmd = "edit"
  /\ fs = EmptyRegistry(TRUE)
  /\ raw = S_foo
  /\ outcome.kind = "NotFound"

\* C12: when the root is there and a namespace directory cannot be read, the
\* selection ends in an error outcome of its own, neither NotFound nor a
\* selection made from the records found so far.
C12_UnreadableIsError ==
  (cmd \in {"edit", "delete"} /\ fs.root /\ fs.denied # {}) =>
    outcome.kind = "ReadError"

----------------------------------------------------------------------------
(* Properties of the version functions, checked under SpecVersion *)

\* the dot-separated segments of a version string
Segments(v) == Split(v, ".")

\* a segment that is a non-negative decimal integer, and its value
IsDecimal(seg) == seg # <<>> /\ \A i \in 1..Len(seg) : seg[i] \in DigitChars

RECURSIVE ValueOf(_)
ValueOf(seg) ==
  IF seg = <<>> THEN 0 ELSE 10 * ValueOf(SubSeq(seg, 1, Len(seg) - 1)) + DigitVal(seg[Len(seg)])

SegmentValue(v, i) ==
  IF i <= Len(Segments(v)) /\ IsDecimal(Segments(v)[i]) THEN ValueOf(Segments(v)[i]) ELSE 0

\* C13: parseVersion returns the triple of the values of the first three
\* segments, where a missing segment and a segment that is not a non-negative
\* decimal integer count as 0; the components are non-negative.
C13_ParseVersionTriple ==
  pc = "parseVersion" =>
    /\ result = [major |-> SegmentValue(versions[1], 1),
                 minor |-> SegmentValue(versions[1], 2),
                 patch |-> SegmentValue(versions[1], 3)]
    /\ result.major >= 0 /\ result.minor >= 0 /\ result.patch >= 0

\* x is greater than y in the lexicographic order on (major, minor, patch)
LexGreater(x, y) ==
  \/ x.major > y.major
  \/ x.major = y.major /\ x.minor > y.minor
  \/ x.major = y.major /\ x.minor = y.minor /\ x.patch > y.patch

\* the comparator puts a before b
Before(a, b) == CompareDesc(a, b) < 0

\* C14: the comparator is the lexicographic order on (major, minor, patch),
\* highest first: it puts a before b exactly when a's triple is greater and
\* gives 0 exactly when the triples are equal; it is irreflexive, transitive
\* and orders any two distinct triples; and getLatestVersion returns a record
\* of the list whose version is at least that of every record of the list.
C14_ComparatorTotalOrder ==
  pc = "getLatestVersion" =>
    \E recs \in {VersionRecords(versions)} :
    \E triple \in {[i \in 1..Len(recs) |-> parseVersion(versions[i])]},
       before \in {{ij \in (1..Len(recs)) \X (1..Len(recs)) : Before(recs[ij[1]], recs[ij[2]])}},
       equal \in {{ij \in (1..Len(recs)) \X (1..Len(recs)) :
                     CompareDesc(recs[ij[1]], recs[ij[2]]) = 0}} :
      /\ \A i, j \in 1..Len(recs) :
           /\ <<i, j>> \in before <=> LexGreater(triple[i], triple[j])
           /\ <<i, j>> \in equal <=> triple[i] = triple[j]
           /\ <<i, i>> \notin before
           /\ triple[i] # triple[j] => <<i, j>> \in before \/ <<j, i>> \in before
           /\ \A k \in 1..Len(recs) :
                <<i, j>> \in before /\ <<j, k>> \in before => <<i, k>> \in before
      /\ \E i \in 1..Len(recs) :
           /\ result = recs[i]
           /\ \A j \in 1..Len(recs) : ~LexGreater(triple[j], triple[i])

\* the latest of three records is 1.10.0, which stands after 1.9.9 in the list
C14_Witness ==
  /\ pc = "getLatestVersion"
  /\ Len(versions) = 3
  /\ versions[1] = <<"1", ".", "9", ".", "9">>
  /\ versions[3] = <<"1", ".", "1", "0", ".", "0">>
  /\ result.version = <<"1", ".", "1", "0", ".", "0">>
  /\ result.file = 3

\* a version of exactly three segments that are non-negative decimal integers
IsThreeNumeric(v) ==
  Len(Segments(v)) = 3 /\ \A i \in 1..3 : IsDecimal(Segments(v)[i])

Dotted(a, b, c) == NatToString(a) \o <<".">> \o NatToString(b) \o <<".">> \o NatToString(c)

\* C15: for a version M.m.p of three numeric segments bumpVersion returns
\* (M+1).0.0 for major, M.(m+1).0 for minor and M.m.(p+1) for patch.
C15_BumpRules ==
  (pc = "bumpVersion" /\ IsThreeNumeric(versions[1])) =>
    \E M \in {SegmentValue(versions[1], 1)}, m \in {SegmentValue(versions[1], 2)},
       p \in {SegmentValue(versions[1], 3)} :
      /\ bumpType = S_major => result = Dotted(M + 1, 0, 0)
      /\ bumpType = S_minor => result = Dotted(M, m + 1, 0)
      /\ bumpType = S_patch => result = Dotted(M, m, p + 1)

\* the minor bump of 1.2.3 has given 1.3.0
C15_Witness ==
  /\ pc = "bumpVersion"
  /\ versions[1] = <<"1", ".", "2", ".", "3">>
  /\ bumpType = S_minor
  /\ result = <<"1", ".", "3", ".", "0">>

\* C16: for a version that is not exactly three numeric segments bumpVersion
\* returns 1.0.0, whatever the bump type.
C16_MalformedResets ==
  (pc = "bumpVersion" /\ ~IsThreeNumeric(versions[1])) => result = S_1_0_0

----------------------------------------------------------------------------
(* Properties of validateHeader, checked under SpecHeader *)

----------------------------------------------------------------------------
(* Properties of the edit command, checked under SpecEdit *)

\* C19: the new version file, parsed again, gives the name, namespace,
\* author, description, created and tags of the record that was written and
\* the version it was written with (for a record whose tags are strings).
C19_RoundTrip ==
  (pc = "relisted" /\ IsStringArray(targetPrompt.tags)) =>
    /\ relisted.kind = "record"
    /\ relisted.name = targetPrompt.name
    /\ relisted.namespace = targetPrompt.namespace
    /\ relisted.version = newVersion
    /\ relisted.author = targetPrompt.author
    /\ relisted.description = targetPrompt.description
    /\ relisted.created = targetPrompt.created
    /\ relisted.tags = targetPrompt.tags

\* C20: an answer to the bump question that is not major, minor or patch in
\* any case puts the question again and changes neither the new version nor
\* the files; an answer that is one of them ends the loop; and the new version
\* is only ever set, and the new file only ever written, on such an answer,
\* with bumpVersion applied to the answer in lower case.
C20_BumpLoop ==
  [][ /\ (newVersion' # newVersion \/ written' # written) =>
           /\ pc = "ask"
           /\ ToLowerCase(bumpType') \in {S_major, S_minor, S_patch}
           /\ newVersion' = bumpVersion(targetPrompt.version, ToLowerCase(bumpType'))
      /\ (pc = "ask" /\ ToLowerCase(bumpType') \in {S_major, S_minor, S_patch}) => pc' # "ask"
      /\ (pc = "ask" /\ ToLowerCase(bumpType') \notin {S_major, S_minor, S_patch}) =>
           /\ pc' = "ask"
           /\ UNCHANGED <<newVersion, written>>
    ]_vars

\* the question stands again after the answer ' patch', and nothing is written
C20_Witness ==
  /\ pc = "ask"
  /\ bumpType = <<" ", "p", "a", "t", "c", "h">>
  /\ newVersion = <<>>
  /\ written = NoFile

----------------------------------------------------------------------------
(* Properties of the GitHub Action, checked under SpecFetch *)

\* the prompt a file of the repository holds
Held(slot) == parsePromptMetadata(fs.files[slot])

\* the files <namespace>/<name>.md that hold a prompt of that name and
\* namespace, of some version, with no file <namespace>/<name>-<version>.md
LegacyOnly ==
  {slot \in DOMAIN fs.files :
     /\ slot[2] = LegacyFile
     /\ Held(slot).kind = "record"
     /\ Held(slot).name = S_foo
     /\ Held(slot).namespace = slot[1]
     /\ <<slot[1], S_foo \o <<"-">> \o Held(slot).version \o S_md>> \notin DOMAIN fs.files}

\* the specifier forms that identify the prompt of a file that is the only
\* file of the repository
FormsOf(slot) ==
  { slot[1] \o <<"/">> \o S_foo \o <<"@">> \o Held(slot).version,
    S_foo \o <<"@">> \o Held(slot).version,
    S_foo \o <<"@">> \o S_latest }

\* C18: a prompt stored only under the legacy file name is fetched from that
\* file by namespace/name@version whatever else the repository holds, and by
\* name@version and name@latest when it is the only file; and when the file
\* <namespace>/<name>-<version>.md holds that version, namespace/name@version
\* is fetched from it, legacy file or not.
C18_LegacyFallback ==
  pc = "fetched" =>
    /\ \A slot \in LegacyOnly :
         (\/ raw = slot[1] \o <<"/">> \o S_foo \o <<"@">> \o Held(slot).version
          \/ raw \in FormsOf(slot) /\ DOMAIN fs.files = {slot}) =>
           /\ fetched.kind = "prompt"
           /\ fetched.file = PathJoin(slot[1], slot[2])
    /\ \A slot \in DOMAIN fs.files :
         (/\ slot[2] = VersionedFile
          /\ Held(slot).kind = "record"
          /\ Held(slot).version = V_1_2_0
          /\ raw = slot[1] \o <<"/">> \o S_foo \o <<"@">> \o V_1_2_0) =>
           /\ fetched.kind = "prompt"
           /\ fetched.file = PathJoin(slot[1], slot[2])

----------------------------------------------------------------------------
(* Properties of the commands on the registry, checked under SpecRegistry *)

\* the records of the prompt files that are on disk and can be read
Derivable(f) ==
  {parsePromptFile(PathJoin(slot[1], slot[2]), ReadOk(f.files[slot])) :
     slot \in {x \in DOMAIN f.files : x[1] \notin f.denied /\ EndsWith(x[2], S_md)}} \ {Null}

\* C21: whatever files were created, edited or deleted before, the records a
\* resolution returns are exactly the records of the prompt files on disk at
\* the moment of the call, one for each: no record of a file that is gone,
\* and a record for every file that is there.
C21_NoIndex ==
  pc \in {"choose", "resolved"} =>
    /\ Range(allPrompts) = Derivable(fs)
    /\ Len(allPrompts) = Cardinality(Derivable(fs))

\* the confirmation of the running delete was asked and answered y or yes
DeleteWasConfirmed(dry, answers) ==
  /\ ~dry
  /\ Len(answers) > 0
  /\ ToLowerCase(answers[1]) \in {S_y, S_yes}

\* C23: a step of the delete command unlinks a file or runs a git operation
\* only when --dry-run is absent and the confirmation was answered y or yes;
\* a delete that ends with --dry-run or after another answer leaves the
\* files of the registry as they were when it started and has run no git
\* operation.
C23_DeleteNeedsYes ==
  [][ /\ (cmd = "delete" /\ (fs' # fs \/ Len(gitLog') > Len(gitLog))) =>
           DeleteWasConfirmed(dryRun, reply)
      /\ (cmd' = "delete" /\ pc' = "done" /\ ~DeleteWasConfirmed(dryRun', reply')) =>
           /\ fs'.files = started'
           /\ gitLog' = <<>>
    ]_vars

C23_Witness ==
  /\ cmd = "delete"
  /\ pc = "done"
  /\ DeleteWasConfirmed(dryRun, reply)
  /\ fs.files # started
  /\ gitLog # <<>>

\* C24: when the editor exits with a code other than 0 the edit command ends
\* with the target file holding exactly the text it had before the session,
\* with no file added to or taken from the registry and no git operation run.
C24_EditorFailureRestores ==
  [][ (cmd = "edit" /\ pc = "editor" /\ pc' = "done") =>
        /\ SlotOf(targetPrompt.file) \in DOMAIN fs'.files
        /\ fs'.files[SlotOf(targetPrompt.file)] = started[SlotOf(targetPrompt.file)]
        /\ fs'.files = started
        /\ gitLog' = <<>>
        /\ written' = NoFile
    ]_vars

\* an edit ended by the editor's failure, on a file whose header had been
\* taken out for the session
C24_Witness ==
  /\ cmd = "edit"
  /\ pc = "done"
  /\ bumpType = <<>>
  /\ extractContent(original) # original
  /\ fs.files = started

\* the step of the edit command that writes the new version file
BumpDone == cmd = "edit" /\ pc = "ask" /\ pc' # "ask" /\ written' # NoFile

\* C25: the step of a successful edit that writes the new version leaves
\* every file the registry had at the start of the session with its text,
\* the edited prompt's file included, and adds exactly one file that was not
\* there: <name>-<newVersion>.md in the directory of the target, holding the
\* new header followed by the edited body.
C25_EditAddsOneFile ==
  [][ BumpDone =>
        /\ SlotOf(written'.path) \notin DOMAIN started
        /\ SlotOf(written'.path) =
             <<SlotOf(targetPrompt.file)[1], targetPrompt.name \o <<"-">> \o newVersion' \o S_md>>
        /\ DOMAIN fs'.files = DOMAIN started \cup {SlotOf(written'.path)}
        /\ \A slot \in DOMAIN started : fs'.files[slot] = started[slot]
        /\ fs'.files[SlotOf(written'.path)] = written'.text
        /\ validateHeader(written'.text)
        /\ extractContent(written'.text) = <<"\n">> \o fs.files[SlotOf(targetPrompt.file)]
    ]_vars

\* a record of the edited prompt's file is in a listing
Lists(found, file) == \E i \in 1..Len(found) : found[i].file = file

\* C28: every listing of the registry that another reader takes while the
\* edit session is in progress (the editor is open, or it has exited and the
\* bump question is pending) holds a record of the prompt being edited.
C28_ResolvableDuringEdit ==
  [][ (cmd = "edit" /\ pc \in {"editor", "ask"} /\ pc' = pc /\ listed' # listed) =>
        Lists(listed', targetPrompt.file)
    ]_vars

\* the step of the delete command that unlinks the target files
Unlinks == cmd = "delete" /\ pc = "remote" /\ pc' = "done"

\* C29: unless --all-versions was given or 'All versions' was chosen from
\* the numbered list, the delete command has at most one target and the step
\* that unlinks removes at most one file of the registry.
C29_DeleteOneFile ==
  [][ (Unlinks /\ ~allVersions /\ outcome.kind # "AllVersions") =>
        /\ Len(outcome.records) <= 1
        /\ Cardinality(DOMAIN fs.files \ DOMAIN fs'.files) <= 1
    ]_vars

----------------------------------------------------------------------------
(* Properties of the sync command, checked under SpecSync *)

\* the step that ends a run of sync
SyncEnds == cmd' = "sync" /\ pc # "done" /\ pc' = "done"

HardReset(log) == \E i \in 1..Len(log) : log[i] = "reset --hard"

\* what the sync command never does, whatever git does: a hard reset, or
\* the loss of a local change, without the answer y or yes to its question;
\* a fetch, reset or pull after another answer
SyncAsksFirst ==
  /\ HardReset(gitLog') =>
       /\ pc = "question" /\ repo.changes # {}
       /\ ToLowerCase(reply'[1]) \in {S_y, S_yes}
  /\ repo'.changes # repo.changes =>
       /\ pc = "question"
       /\ ToLowerCase(reply'[1]) \in {S_y, S_yes}
  /\ (pc = "question" /\ ToLowerCase(reply'[1]) \notin {S_y, S_yes}) =>
       /\ gitLog' = <<"log", "status">>
       /\ repo' = repo

\* C26 as stated: sync never discards uncommitted changes without consent;
\* with uncommitted files a hard reset needs the answer y or yes and any
\* other answer ends the command without fetch, reset or pull; with no
\* uncommitted files (and git working) it fetches, then pulls, and never
\* resets.
C26_SyncAsStated ==
  [][ SyncEnds =>
        /\ SyncAsksFirst
        /\ (repo.configured /\ repo.fails = "none" /\ repo.changes = {}) =>
             gitLog' = <<"log", "status", "fetch", "pull">>
    ]_vars

\* C26, amended: the same, where fetch followed by pull is what happens with
\* no uncommitted files in a repository that has at least one commit; in a
\* repository without commits sync only fetches, whatever the working tree
\* holds, asks nothing and resets nothing.
C26_SyncConsent ==
  [][ SyncEnds =>
        /\ SyncAsksFirst
        /\ (repo.configured /\ repo.fails = "none" /\ repo.changes = {} /\ repo.commits) =>
             gitLog' = <<"log", "status", "fetch", "pull">>
        /\ (repo.configured /\ repo.fails = "none" /\ ~repo.commits) =>
             /\ gitLog' = <<"log", "fetch">>
             /\ reply' = <<>>
             /\ repo' = repo
    ]_vars

C26_Witness ==
  /\ cmd = "sync" /\ pc = "done"
  /\ repo.configured /\ repo.commits /\ repo.fails = "none"
  /\ repo.changes = {} /\ reply = <<>>
  /\ gitLog = <<"log", "status", "fetch", "pull">>

----------------------------------------------------------------------------
(* Properties of the pull command, checked under SpecPull *)

\* text.includes(part), for texts as sequences of pieces
Contains(text, part) ==
  \E i \in 1..(Len(text) - Len(part) + 1) : SubSeq(text, i, i + Len(part) - 1) = part

\* the contents pulled for the provider files: those of the files of every
\* collection of promptsToPull that has providers and whose namespace has files
PulledFor(p) ==
  UNION {{Remote[p.todo[i].namespace][j].content :
            j \in 1..Len(Remote[p.todo[i].namespace])} :
         i \in {k \in 1..Len(p.todo) :
                  p.todo[k].providers /\ p.todo[k].namespace \in DOMAIN Remote}}

\* pull --all has gone through every collection and ended without a throw
PulledAll ==
  /\ cmd = "pull" /\ pc = "done" /\ allVersions
  /\ ~project.failed /\ project.next > Len(project.todo)

\* C22: after pull --all has completed, the instruction file of every
\* configured provider holds the content of every prompt pulled for every
\* collection, not only for the collection processed last.
C22_ProviderFilesHoldAll ==
  PulledAll =>
    \A file \in ProviderPaths(project) : \A text \in PulledFor(project) :
       /\ file \in DOMAIN project.files
       /\ Contains(project.files[file], text)

\* C27: after a call of downloadFromGit has returned or thrown, whichever
\* way it went, no .temp_<timestamp> directory is left in the project.
C27_TempDirRemoved == project.temp = {}

----------------------------------------------------------------------------
(* Properties of the new command, checked under SpecNew *)

\* a run of new has ended
NewEnded == cmd = "new" /\ pc = "done"

\* C30: when the file <namespace>/<sanitized-name>-<version>.md existed
\* before new ran with that namespace, name and version, it is there with
\* the same content after the run, however the run ended (editor failure,
\* invalid header, dry run, commit, kept or deleted locally).
C30_NewKeepsExisting ==
  (NewEnded /\ SlotOf(written.path) \in DOMAIN started) =>
     /\ SlotOf(written.path) \in DOMAIN fs.files
     /\ fs.files[SlotOf(written.path)] = started[SlotOf(written.path)]

====
